---- MODULE Spec2Model ----
(***************************************************************************)
(* Model of the 3D topology panel: the data-frame parser (dataUtils), the  *)
(* panel entry point (SimplePanel) and the scene lifecycle of              *)
(* ThreeVisualize3D (mount effect, resize effect, update effect, render    *)
(* loop, cleanup).                                                         *)
(*                                                                         *)
(* JavaScript strings are sequences of character codes, so that           *)
(* toLowerCase, String(n) and the template strings of the parser are       *)
(* computed and not assumed.  JavaScript values are records [t, n, s].     *)
(***************************************************************************)
EXTENDS Integers, Sequences, FiniteSets, TLC

(* ------------------------------------------------------------------ *)
(* Bounds of the model                                                 *)
(* ------------------------------------------------------------------ *)
MaxRows == 2
MaxFrames == 2
MaxRefresh == 3
MaxTicks == 2
MaxDelta == 5
MaxSeconds == 3
MaxInstances == 2

(* ------------------------------------------------------------------ *)
(* JavaScript values and strings                                       *)
(* ------------------------------------------------------------------ *)
JSNum(k) == [t |-> "num", n |-> k, s |-> <<>>]
JSNaN == [t |-> "nan", n |-> 0, s |-> <<>>]
JSStr(str) == [t |-> "str", n |-> 0, s |-> str]
JSNull == [t |-> "null", n |-> 0, s |-> <<>>]
JSBool(b) == [t |-> "bool", n |-> IF b THEN 1 ELSE 0, s |-> <<>>]

\* character codes of the literals that occur in the source
s_id == <<105, 100>>
s_label == <<108, 97, 98, 101, 108>>
s_layerOrder == <<108, 97, 121, 101, 114, 79, 114, 100, 101, 114>>
s_size == <<115, 105, 122, 101>>
s_isCenter == <<105, 115, 67, 101, 110, 116, 101, 114>>
s_cifrb == <<99, 105, 102, 114, 98>>
s_ccu == <<99, 99, 117>>
s_transactions == <<116, 114, 97, 110, 115, 97, 99, 116, 105, 111, 110, 115>>
s_transactionsIn10Min == s_transactions \o <<73, 110, 49, 48, 77, 105, 110>>
s_sumCIFRB == <<115, 117, 109, 67, 73, 70, 82, 66>>
s_sumCIFRBIn10Min == s_sumCIFRB \o <<73, 110, 49, 48, 77, 105, 110>>
s_nodeDash == <<110, 111, 100, 101, 45>>
s_NodeSpace == <<78, 111, 100, 101, 32>>
s_sm == <<115, 109>>
s_small == <<115, 109, 97, 108, 108>>
s_md == <<109, 100>>
s_lg == <<108, 103>>
s_large == <<108, 97, 114, 103, 101>>
s_null == <<110, 117, 108, 108>>
s_NaN == <<78, 97, 78>>
s_true == <<116, 114, 117, 101>>
s_false == <<102, 97, 108, 115, 101>>

\* String.prototype.toLowerCase on the ASCII range
toLowerCase(str) ==
  [i \in 1..Len(str) |-> IF str[i] \in 65..90 THEN str[i] + 32 ELSE str[i]]

\* String.prototype.toUpperCase on the ASCII range (used to build inputs)
toUpperCase(str) ==
  [i \in 1..Len(str) |-> IF str[i] \in 97..122 THEN str[i] - 32 ELSE str[i]]

RECURSIVE Digits(_)
Digits(k) == IF k < 10 THEN <<48 + k>> ELSE Digits(k \div 10) \o <<48 + (k % 10)>>

\* Number.prototype.toString for an integer
DecStr(k) == IF k < 0 THEN <<45>> \o Digits(0 - k) ELSE Digits(k)

\* String(v)
String(v) ==
  CASE v.t = "num" -> DecStr(v.n)
    [] v.t = "nan" -> s_NaN
    [] v.t = "str" -> v.s
    [] v.t = "null" -> s_null
    [] v.t = "bool" -> IF v.n = 1 THEN s_true ELSE s_false

RECURSIVE DigitsValue(_)
DigitsValue(str) ==
  IF Len(str) = 0 THEN 0
  ELSE 10 * DigitsValue(SubSeq(str, 1, Len(str) - 1)) + (str[Len(str)] - 48)

AllDigits(str) == Len(str) > 0 /\ \A i \in 1..Len(str) : str[i] \in 48..57

\* StringToNumber restricted to strings without white space, fraction,
\* exponent, radix prefix or "Infinity": the empty string is 0, an optionally
\* signed run of decimal digits is its value, anything else is NaN.
StringToNumber(str) ==
  IF Len(str) = 0 THEN JSNum(0)
  ELSE IF AllDigits(str) THEN JSNum(DigitsValue(str))
  ELSE IF str[1] = 45 /\ AllDigits(Tail(str)) THEN JSNum(0 - DigitsValue(Tail(str)))
  ELSE IF str[1] = 43 /\ AllDigits(Tail(str)) THEN JSNum(DigitsValue(Tail(str)))
  ELSE JSNaN

\* variant of Number: a failed coercion gives 0 (Number(v) || 0)
Number_orZero(v) ==
  CASE v.t = "num" -> v
    [] v.t = "nan" -> JSNum(0)
    [] v.t = "str" -> IF StringToNumber(v.s).t = "nan" THEN JSNum(0) ELSE StringToNumber(v.s)
    [] v.t = "null" -> JSNum(0)
    [] v.t = "bool" -> JSNum(v.n)

\* Number(v)
Number(v) ==
  CASE v.t = "num" -> v
    [] v.t = "nan" -> JSNaN
    [] v.t = "str" -> StringToNumber(v.s)
    [] v.t = "null" -> JSNum(0)
    [] v.t = "bool" -> JSNum(v.n)

\* Boolean(v)
Boolean(v) ==
  CASE v.t = "num" -> v.n # 0
    [] v.t = "nan" -> FALSE
    [] v.t = "str" -> Len(v.s) > 0
    [] v.t = "null" -> FALSE
    [] v.t = "bool" -> v.n = 1

(* ------------------------------------------------------------------ *)
(* dataUtils: parseNodesFromDataFrame                                  *)
(* A frame is [length, fields]; a field is [name, values]; rows are    *)
(* 0-based in the source, so row i is values[i + 1] here.              *)
(* ------------------------------------------------------------------ *)
NoField == [name |-> <<>>, values |-> <<>>, found |-> FALSE]

RECURSIVE findFrom(_, _, _)
findFrom(fields, lowered, k) ==
  IF k > Len(fields) THEN NoField
  ELSE IF toLowerCase(fields[k].name) = lowered
       THEN [name |-> fields[k].name, values |-> fields[k].values, found |-> TRUE]
       ELSE findFrom(fields, lowered, k + 1)

\* frame.fields.find(f => f.name.toLowerCase() === fieldName.toLowerCase())
findField(frame, fieldName) == findFrom(frame.fields, toLowerCase(fieldName), 1)

\* variant of parseNodeSize: the value is compared as it is written
parseNodeSize_caseSensitive(value) ==
  IF value = s_sm \/ value = s_small THEN s_sm
  ELSE IF value = s_lg \/ value = s_large THEN s_lg
  ELSE s_md

parseNodeSize(value) ==
  LET normalized == toLowerCase(value)
  IN  IF normalized = s_sm \/ normalized = s_small THEN s_sm
      ELSE IF normalized = s_lg \/ normalized = s_large THEN s_lg
      ELSE s_md

\* the optional metric attributes, in the order the row loop adds them
MetricNames == <<s_cifrb, s_ccu, s_transactions, s_transactionsIn10Min>>
MetricKeys == <<"cifrb", "ccu", "transactions", "transactionsIn10Min">>

RECURSIVE addMetrics(_, _, _, _)
addMetrics(node, frame, i, m) ==
  IF m > Len(MetricNames) THEN node
  ELSE LET f == findField(frame, MetricNames[m])
           next == IF f.found
                   THEN (MetricKeys[m] :> Number(f.values[i + 1])) @@ node
                   ELSE node
       IN  addMetrics(next, frame, i, m + 1)

\* variant of parseRow: the defaults count rows from 1 and a missing
\* layerOrder column gives layer 0
parseRow_fromOne(frame, i) ==
  LET idField == findField(frame, s_id)
      labelField == findField(frame, s_label)
      layerOrderField == findField(frame, s_layerOrder)
      sizeField == findField(frame, s_size)
      isCenterField == findField(frame, s_isCenter)
      node == [id |-> IF idField.found THEN String(idField.values[i + 1])
                      ELSE s_nodeDash \o DecStr(i + 1),
               label |-> IF labelField.found THEN String(labelField.values[i + 1])
                         ELSE s_NodeSpace \o DecStr(i + 1),
               layerOrder |-> IF layerOrderField.found
                              THEN Number(layerOrderField.values[i + 1])
                              ELSE JSNum(0),
               size |-> IF sizeField.found
                        THEN parseNodeSize(String(sizeField.values[i + 1]))
                        ELSE s_md,
               isCenter |-> IF isCenterField.found
                            THEN Boolean(isCenterField.values[i + 1])
                            ELSE FALSE]
  IN  addMetrics(node, frame, i, 1)

\* the node record built for row i (0-based) of a frame that is not skipped
parseRow(frame, i) ==
  LET idField == findField(frame, s_id)
      labelField == findField(frame, s_label)
      layerOrderField == findField(frame, s_layerOrder)
      sizeField == findField(frame, s_size)
      isCenterField == findField(frame, s_isCenter)
      node == [id |-> IF idField.found THEN String(idField.values[i + 1])
                      ELSE s_nodeDash \o DecStr(i),
               label |-> IF labelField.found THEN String(labelField.values[i + 1])
                         ELSE s_NodeSpace \o DecStr(i),
               layerOrder |-> IF layerOrderField.found
                              THEN Number(layerOrderField.values[i + 1])
                              ELSE JSNum(1),
               size |-> IF sizeField.found
                        THEN parseNodeSize(String(sizeField.values[i + 1]))
                        ELSE s_md,
               isCenter |-> IF isCenterField.found
                            THEN Boolean(isCenterField.values[i + 1])
                            ELSE FALSE]
  IN  addMetrics(node, frame, i, 1)

\* variant of isSkipped: a frame is skipped as soon as one of the three
\* columns is missing
isSkipped_anyMissing(frame) ==
  \/ ~findField(frame, s_id).found
  \/ ~findField(frame, s_label).found
  \/ ~findField(frame, s_layerOrder).found

\* the essential-field check: a frame with none of id, label, layerOrder
isSkipped(frame) ==
  /\ ~findField(frame, s_id).found
  /\ ~findField(frame, s_label).found
  /\ ~findField(frame, s_layerOrder).found

\* variant of parseFrame: the row loop stops one row early
parseFrame_shortLoop(frame) ==
  IF isSkipped(frame) THEN <<>>
  ELSE [k \in 1..(frame.length - 1) |-> parseRow(frame, k - 1)]

parseFrame(frame) ==
  IF isSkipped(frame) THEN <<>>
  ELSE [k \in 1..frame.length |-> parseRow(frame, k - 1)]

RECURSIVE parseFrames(_, _)
parseFrames(dataFrames, k) ==
  IF k > Len(dataFrames) THEN <<>>
  ELSE parseFrame(dataFrames[k]) \o parseFrames(dataFrames, k + 1)

parseNodesFromDataFrame(dataFrames) ==
  IF Len(dataFrames) = 0 THEN <<>> ELSE parseFrames(dataFrames, 1)

(* ------------------------------------------------------------------ *)
(* dataUtils: parseTransactionData                                     *)
(* ------------------------------------------------------------------ *)
\* x || 0 for a number x: 0 for NaN and for 0
OrZero(v) == IF v.t = "nan" \/ v.n = 0 THEN JSNum(0) ELSE v

\* "Default values"
ZeroTotals == [sumCIFRB |-> JSNum(0), sumCIFRBIn10Min |-> JSNum(0)]

\* variant of scanTotals: the last row of a column is read
RECURSIVE scanTotals_lastRow(_, _, _)
scanTotals_lastRow(dataFrames, k, totals) ==
  IF k > Len(dataFrames) THEN totals
  ELSE LET frame == dataFrames[k]
           sumCIFRBField == findField(frame, s_sumCIFRB)
           sumCIFRBIn10MinField == findField(frame, s_sumCIFRBIn10Min)
           next == [sumCIFRB |-> IF sumCIFRBField.found /\ frame.length > 0
                                 THEN OrZero(Number(sumCIFRBField.values[frame.length]))
                                 ELSE totals.sumCIFRB,
                    sumCIFRBIn10Min |-> IF sumCIFRBIn10MinField.found /\ frame.length > 0
                                        THEN OrZero(Number(sumCIFRBIn10MinField.values[frame.length]))
                                        ELSE totals.sumCIFRBIn10Min]
       IN  IF sumCIFRBField.found /\ sumCIFRBIn10MinField.found THEN next
           ELSE scanTotals_lastRow(dataFrames, k + 1, next)

\* "Look for transaction data frame": the loop over the frames from frame k,
\* with the totals found so far; it stops at a frame that has both columns
RECURSIVE scanTotals(_, _, _)
scanTotals(dataFrames, k, totals) ==
  IF k > Len(dataFrames) THEN totals
  ELSE LET frame == dataFrames[k]
           sumCIFRBField == findField(frame, s_sumCIFRB)
           sumCIFRBIn10MinField == findField(frame, s_sumCIFRBIn10Min)
           next == [sumCIFRB |-> IF sumCIFRBField.found /\ frame.length > 0
                                 THEN OrZero(Number(sumCIFRBField.values[1]))
                                 ELSE totals.sumCIFRB,
                    sumCIFRBIn10Min |-> IF sumCIFRBIn10MinField.found /\ frame.length > 0
                                        THEN OrZero(Number(sumCIFRBIn10MinField.values[1]))
                                        ELSE totals.sumCIFRBIn10Min]
       IN  IF sumCIFRBField.found /\ sumCIFRBIn10MinField.found THEN next
           ELSE scanTotals(dataFrames, k + 1, next)

parseTransactionData(dataFrames) ==
  IF Len(dataFrames) = 0 THEN ZeroTotals ELSE scanTotals(dataFrames, 1, ZeroTotals)

(* ------------------------------------------------------------------ *)
(* formatNumber of Node3D, InfoPanel and TransactionPanel              *)
(* ------------------------------------------------------------------ *)
RECURSIVE bitLength(_)
\* the number of binary digits of a positive integer
bitLength(k) == IF k = 0 THEN 0 ELSE 1 + bitLength(k \div 2)

\* 2^m modulo 5
powerOfTwoMod5(m) == <<1, 2, 4, 3>>[(m % 4) + 1]

\* the tenths that (n / unit).toFixed(1) prints, for an integer n >= unit.
\* The quotient is the double nearest to n / unit and toFixed rounds the exact
\* value of that double, the larger candidate on a tie.  Off a decimal tie
\* the double rounds like n / unit.  On a decimal tie n / unit is I + k/20
\* with k odd; the double keeps 53 - bitLength(I) binary places of k/20, so it
\* lies below, on or above the tie as k * 2^(places - 2) modulo 5 is in {1, 2},
\* is 0, or is in {3, 4}.
tenthsOf(n, unit) ==
  LET whole == (10 * n) \div unit
      rest == (10 * n) % unit
      places == 53 - bitLength(n \div unit)
      k == (2 * whole + 1) % 20
      side == (k * powerOfTwoMod5(places - 2)) % 5
  IN  IF 2 * rest < unit THEN whole
      ELSE IF 2 * rest > unit THEN whole + 1
      ELSE IF side \in {1, 2} THEN whole
      ELSE whole + 1

\* (n / unit).toFixed(1)
toFixed1(n, unit) ==
  LET tenths == tenthsOf(n, unit)
  IN  Digits(tenths \div 10) \o <<46, 48 + (tenths % 10)>>

\* variant of formatNumber: the thresholds are exclusive
formatNumber_exclusive(num) ==
  IF num.t = "num" /\ num.n > 1000000 THEN toFixed1(num.n, 1000000) \o <<77>>
  ELSE IF num.t = "num" /\ num.n > 1000 THEN toFixed1(num.n, 1000) \o <<75>>
  ELSE String(num)

\* Node3D.formatNumber; a comparison with NaN is false, so NaN reaches toString
formatNumber(num) ==
  IF num.t = "num" /\ num.n >= 1000000 THEN toFixed1(num.n, 1000000) \o <<77>>
  ELSE IF num.t = "num" /\ num.n >= 1000 THEN toFixed1(num.n, 1000) \o <<75>>
  ELSE String(num)

\* the locales of the host and their group separators
Locales == { "en-US", "de-DE" }
groupSeparator(locale) == IF locale = "en-US" THEN <<44>> ELSE <<46>>

RECURSIVE grouped(_, _)
\* the digits in groups of three from the right
grouped(digits, separator) ==
  IF Len(digits) <= 3 THEN digits
  ELSE grouped(SubSeq(digits, 1, Len(digits) - 3), separator) \o separator
       \o SubSeq(digits, Len(digits) - 2, Len(digits))

\* Number.prototype.toLocaleString() of an integer or NaN
toLocaleString(num, locale) ==
  IF num.t = "nan" THEN s_NaN
  ELSE IF num.n < 0 THEN <<45>> \o grouped(Digits(0 - num.n), groupSeparator(locale))
  ELSE grouped(Digits(num.n), groupSeparator(locale))

\* variant of InfoPanel_formatNumber: no K branch
InfoPanel_formatNumber_noK(num, locale) ==
  IF num.t = "num" /\ num.n >= 1000000 THEN toFixed1(num.n, 1000000) \o <<77>>
  ELSE toLocaleString(num, locale)

\* InfoPanel.formatNumber
InfoPanel_formatNumber(num, locale) ==
  IF num.t = "num" /\ num.n >= 1000000 THEN toFixed1(num.n, 1000000) \o <<77>>
  ELSE IF num.t = "num" /\ num.n >= 1000 THEN toFixed1(num.n, 1000) \o <<75>>
  ELSE toLocaleString(num, locale)

\* TransactionPanel.formatNumber
TransactionPanel_formatNumber(num, locale) ==
  IF num.t = "num" /\ num.n >= 1000000 THEN toFixed1(num.n, 1000000) \o <<77>>
  ELSE IF num.t = "num" /\ num.n >= 1000 THEN toFixed1(num.n, 1000) \o <<75>>
  ELSE toLocaleString(num, locale)

\* the numbers handed to the formatters: NaN and the integers around the
\* thresholds, around decimal ties and around zero
Pivots == { -1000, 0, 1000, 1050, 1150, 999950, 1000000, 1500000 }
FormatInputs ==
  { JSNaN } \cup { JSNum(pivot + delta) : pivot \in Pivots, delta \in (0 - MaxDelta)..MaxDelta }

(* ------------------------------------------------------------------ *)
(* Input frames                                                        *)
(* ------------------------------------------------------------------ *)
s_a == <<97>>
s_x == <<120>>
s_5 == <<53>>
s_T24 == <<84, 50, 52>>
s_SM == toUpperCase(s_sm)
s_Large == <<76>> \o Tail(s_large)
s_huge == <<104, 117, 103, 101>>
s_1000 == <<49, 48, 48, 48>>
s_other == <<111, 116, 104, 101, 114>>

\* the cells of a column, by lower-cased column name; row i of a column
\* holds entry (i mod 4) + 1
CellTable(lowered) ==
  CASE lowered = toLowerCase(s_id) -> <<JSStr(s_a), JSNum(7), JSStr(s_a), JSNull>>
    [] lowered = toLowerCase(s_label) -> <<JSStr(s_T24), JSNull, JSNum(0), JSStr(<<>>)>>
    [] lowered = toLowerCase(s_layerOrder) -> <<JSNum(2), JSStr(s_x), JSStr(s_5), JSNull>>
    [] lowered = toLowerCase(s_size) -> <<JSStr(s_SM), JSStr(s_Large), JSStr(s_huge), JSNull>>
    [] lowered = toLowerCase(s_isCenter) -> <<JSBool(TRUE), JSNum(0), JSStr(s_false), JSNull>>
    [] lowered = toLowerCase(s_cifrb) -> <<JSNum(0), JSNum(1500000), JSStr(s_x), JSNull>>
    [] lowered = toLowerCase(s_ccu) -> <<JSNum(999), JSStr(s_1000), JSNull, JSNum(0)>>
    [] lowered = toLowerCase(s_transactions) -> <<JSNull, JSStr(s_x), JSNum(1000), JSNum(0)>>
    [] lowered = toLowerCase(s_transactionsIn10Min) -> <<JSStr(<<>>), JSNum(5), JSNaN, JSNum(0)>>
    [] lowered = toLowerCase(s_sumCIFRB) -> <<JSNum(1500000), JSStr(s_x), JSNull, JSNum(0)>>
    [] lowered = toLowerCase(s_sumCIFRBIn10Min) -> <<JSNum(7), JSStr(s_1000), JSNaN, JSNum(0)>>
    [] OTHER -> <<JSNum(42), JSNum(0), JSStr(s_x), JSNull>>

\* the two aggregate columns start at an entry that depends on the row count
\* of the frame, so that frames differ in their first row
FirstEntry(lowered, length) ==
  IF lowered \in {toLowerCase(s_sumCIFRB), toLowerCase(s_sumCIFRBIn10Min)} /\ length > 0
  THEN length - 1 ELSE 0

MakeField(name, length) ==
  [name |-> name,
   values |-> [k \in 1..length |->
                 CellTable(toLowerCase(name))
                   [((k - 1 + FirstEntry(toLowerCase(name), length)) % 4) + 1]]]

MakeFrame(names, length) ==
  [length |-> length, fields |-> [j \in 1..Len(names) |-> MakeField(names[j], length)]]

\* column layouts of the input frames
Layouts ==
  { <<s_sumCIFRB, s_cifrb, s_size, s_isCenter>>,
    <<s_id, s_ccu, s_transactions>>,
    <<s_label, s_cifrb, s_sumCIFRBIn10Min>>,
    <<s_layerOrder, toUpperCase(s_transactionsIn10Min), s_isCenter>>,
    <<s_id, s_label, toUpperCase(s_sumCIFRB), s_sumCIFRBIn10Min>>,
    <<toUpperCase(s_id), toUpperCase(s_label), toUpperCase(s_layerOrder)>>,
    <<s_id, s_label, s_layerOrder, s_size, s_isCenter,
      s_cifrb, s_ccu, s_transactions, s_transactionsIn10Min>> }

\* size cells in the spellings the size column is documented with, the empty
\* string, a null cell and a word that is no size
SizeSamples ==
  << JSStr(s_sm), JSStr(s_small), JSStr(<<83>> \o Tail(s_small)), JSStr(toUpperCase(s_small)),
     JSStr(s_lg), JSStr(toUpperCase(s_lg)), JSStr(s_large), JSStr(<<>>), JSNull,
     JSStr(<<109, 101, 100, 105, 117, 109>>) >>

\* a frame with an id column and a size column holding the samples
SizeFrame ==
  [length |-> Len(SizeSamples),
   fields |-> << [name |-> s_id, values |-> [k \in 1..Len(SizeSamples) |-> JSNum(k)]],
                 [name |-> s_size, values |-> SizeSamples] >>]

FramePool ==
  { MakeFrame(names, length) : names \in Layouts, length \in 0..MaxRows } \cup { SizeFrame }

RECURSIVE SeqsUpTo(_, _)
SeqsUpTo(S, k) ==
  IF k = 0 THEN { <<>> }
  ELSE LET shorter == SeqsUpTo(S, k - 1)
       IN  shorter \cup { Append(q, e) : q \in { r \in shorter : Len(r) = k - 1 }, e \in S }

(* ------------------------------------------------------------------ *)
(* Scene objects (THREE.Object3D).  An object owning a geometry and a   *)
(* material carries the identity id of that pair; 0 stands for none.    *)
(* rot counts rotation.y in thousandths, speed is rotationSpeed in      *)
(* thousandths (0: property not set).                                   *)
(* ------------------------------------------------------------------ *)
RingBase == 15
RingSpacing == 7
CenterSpacing == 3

NoPos == [kind |-> "default", x2 |-> 0, radius |-> JSNum(0), k |-> 0, n |-> 1]

Obj(type, id, children) ==
  [type |-> type, id |-> id, children |-> children, isCenter |-> FALSE,
   isCore |-> FALSE, speed |-> 0, rot |-> 0, pos |-> NoPos, label |-> <<>>,
   metrics |-> <<>>, userData |-> <<>>]

\* Node3D.createNodeMesh: a Group holding the shaded Mesh and the wireframe
\* LineSegments, each with a geometry and a material of its own
createNodeMesh(nodeData, id) ==
  [Obj("Group", 0, << Obj("Mesh", id, <<>>), Obj("LineSegments", id + 1, <<>>) >>)
     EXCEPT !.label = nodeData.label, !.userData = nodeData]

\* ThreeViz.createRing: a Line with its own geometry and material
createRing(radius, id) ==
  [Obj("Line", id, <<>>) EXCEPT !.pos = [NoPos EXCEPT !.kind = "ring", !.radius = JSNum(radius)]]

\* the texts "CIFRB: ", "CCU: ", "Trans: ", "10min: " that start a metric line
MetricPrefixes ==
  << <<67, 73, 70, 82, 66, 58, 32>>, <<67, 67, 85, 58, 32>>,
     <<84, 114, 97, 110, 115, 58, 32>>, <<49, 48, 109, 105, 110, 58, 32>> >>

\* "Add metrics if available": the metric lines pushed from metric m on
RECURSIVE metricLines(_, _)
metricLines(nodeData, m) ==
  IF m > Len(MetricKeys) THEN <<>>
  ELSE (IF MetricKeys[m] \in DOMAIN nodeData /\ ~nodeData.isCenter
        THEN << MetricPrefixes[m] \o formatNumber(nodeData[MetricKeys[m]]) >>
        ELSE <<>>)
       \o metricLines(nodeData, m + 1)

\* Node3D.createNodeLabelHTML: the title and the metric lines of the label
createNodeLabelHTML(nodeData) ==
  [title |-> nodeData.label, metrics |-> metricLines(nodeData, 1)]

\* new CSS2DObject(createNodeLabelHTML(nodeData))
createLabel(nodeData) ==
  [Obj("CSS2DObject", 0, <<>>) EXCEPT !.label = createNodeLabelHTML(nodeData).title,
                                      !.metrics = createNodeLabelHTML(nodeData).metrics]

\* obj instanceof THREE.Mesh || obj instanceof THREE.Line
ownsResources(obj) == obj.type \in {"Mesh", "Line", "LineSegments"}

\* disposeNode: the ids whose geometry and material are disposed, in order:
\* the children first (each removed, then disposed recursively), then the
\* object itself when it is a Mesh or a Line
RECURSIVE disposeNode(_)
RECURSIVE disposeAll(_, _)
disposeAll(children, k) ==
  IF k > Len(children) THEN <<>>
  ELSE disposeNode(children[k]) \o disposeAll(children, k + 1)

disposeNode(obj) ==
  disposeAll(obj.children, 1) \o (IF ownsResources(obj) /\ obj.id # 0 THEN <<obj.id>> ELSE <<>>)

\* variant of clearGroup: the children are disposed but stay attached
clearGroup_keepsChildren(children) ==
  [left |-> children, disposed |-> disposeAll(children, 1)]

\* variant of clearGroup: the loop stops while one child is left
clearGroup_keepsLast(children) ==
  IF Len(children) = 0 THEN [left |-> <<>>, disposed |-> <<>>]
  ELSE [left |-> << children[Len(children)] >>,
        disposed |-> disposeAll(SubSeq(children, 1, Len(children) - 1), 1)]

\* "Clear existing nodes and rings": while the group has children, remove
\* the first and dispose it.  Yields what stays attached and what was disposed.
clearGroup(children) == [left |-> <<>>, disposed |-> disposeAll(children, 1)]

isCenterNode(n) == n.isCenter
isLayerNode(n) == ~n.isCenter

\* keys of nodesByLayer in insertion order
RECURSIVE layerKeys(_, _)
layerKeys(layerNodes, k) ==
  IF k > Len(layerNodes) THEN <<>>
  ELSE LET key == layerNodes[k].layerOrder
           later == layerKeys(layerNodes, k + 1)
       IN  <<key>> \o SelectSeq(later, LAMBDA other : other # key)

\* Math.max(numberOfLayers, ...keys): NaN when an argument is NaN
RECURSIVE MathMax(_, _)
MathMax(best, keys) ==
  IF Len(keys) = 0 THEN best
  ELSE IF best.t = "nan" \/ Head(keys).t = "nan" THEN JSNaN
  ELSE MathMax(IF Head(keys).n > best.n THEN Head(keys) ELSE best, Tail(keys))

\* radius = 15 + (layerIndex - 1) * 7
layerRadius(layerIndex) ==
  IF layerIndex.t = "nan" THEN JSNaN
  ELSE JSNum(RingBase + (layerIndex.n - 1) * RingSpacing)

\* variant of buildCenters: the centers are spread from the origin onwards
RECURSIVE buildCenters_fromOrigin(_, _, _)
buildCenters_fromOrigin(centerNodes, index, id) ==
  IF index >= Len(centerNodes) THEN [objs |-> <<>>, next |-> id]
  ELSE LET nodeData == centerNodes[index + 1]
           position == [NoPos EXCEPT !.kind = "center", !.x2 = 2 * index * CenterSpacing]
           created == createNodeMesh(nodeData, id)
           mesh == [created EXCEPT !.pos = position,
                                   !.children = Append(created.children, createLabel(nodeData)),
                                   !.speed = -2, !.isCenter = TRUE]
           coreInner == [Obj("Mesh", id + 2, <<>>) EXCEPT !.pos = position, !.speed = 5, !.isCore = TRUE]
           rest == buildCenters_fromOrigin(centerNodes, index + 1, IF index = 0 THEN id + 3 ELSE id + 2)
       IN  [objs |-> (IF index = 0 THEN <<coreInner, mesh>> ELSE <<mesh>>) \o rest.objs,
            next |-> rest.next]

\* variant of buildCenters: every center node gets an inner core
RECURSIVE buildCenters_coreEach(_, _, _)
buildCenters_coreEach(centerNodes, index, id) ==
  IF index >= Len(centerNodes) THEN [objs |-> <<>>, next |-> id]
  ELSE LET nodeData == centerNodes[index + 1]
           position == IF Len(centerNodes) > 1
                       THEN [NoPos EXCEPT !.kind = "center",
                                          !.x2 = (2 * index - (Len(centerNodes) - 1)) * CenterSpacing]
                       ELSE [NoPos EXCEPT !.kind = "center"]
           created == createNodeMesh(nodeData, id)
           mesh == [created EXCEPT !.pos = position,
                                   !.children = Append(created.children, createLabel(nodeData)),
                                   !.speed = -2, !.isCenter = TRUE]
           coreInner == [Obj("Mesh", id + 2, <<>>) EXCEPT !.pos = position, !.speed = 5, !.isCore = TRUE]
           rest == buildCenters_coreEach(centerNodes, index + 1, id + 3)
       IN  [objs |-> <<coreInner, mesh>> \o rest.objs, next |-> rest.next]

\* "Render center nodes": objects added to the node group, in order, and the
\* next free identity
RECURSIVE buildCenters(_, _, _)
buildCenters(centerNodes, index, id) ==
  IF index >= Len(centerNodes) THEN [objs |-> <<>>, next |-> id]
  ELSE LET nodeData == centerNodes[index + 1]
           position == IF Len(centerNodes) > 1
                       THEN [NoPos EXCEPT !.kind = "center",
                                          !.x2 = (2 * index - (Len(centerNodes) - 1)) * CenterSpacing]
                       ELSE [NoPos EXCEPT !.kind = "center"]
           created == createNodeMesh(nodeData, id)
           mesh == [created EXCEPT !.pos = position,
                                   !.children = Append(created.children, createLabel(nodeData)),
                                   !.speed = -2, !.isCenter = TRUE]
           coreInner == [Obj("Mesh", id + 2, <<>>) EXCEPT !.pos = position, !.speed = 5, !.isCore = TRUE]
           rest == buildCenters(centerNodes, index + 1, IF index = 0 THEN id + 3 ELSE id + 2)
       IN  [objs |-> (IF index = 0 THEN <<coreInner, mesh>> ELSE <<mesh>>) \o rest.objs,
            next |-> rest.next]

\* "Render orbit rings": for (i = 1; i <= maxLayer; i++)
buildRings(maxLayer, id) ==
  IF maxLayer.t = "nan" \/ maxLayer.n < 1 THEN [objs |-> <<>>, next |-> id]
  ELSE [objs |-> [i \in 1..maxLayer.n |-> createRing(RingBase + (i - 1) * RingSpacing, id + i - 1)],
        next |-> id + maxLayer.n]

\* variant of buildLayer: the first node of a layer is one step off angle 0
buildLayer_fromOne(nodesInLayer, layerIndex, id) ==
  [index \in 1..Len(nodesInLayer) |->
     LET created == createNodeMesh(nodesInLayer[index], id + 2 * (index - 1))
     IN  [created EXCEPT !.pos = [kind |-> "circle", x2 |-> 0, radius |-> layerRadius(layerIndex),
                                  k |-> index, n |-> Len(nodesInLayer)],
                         !.children = Append(created.children, createLabel(nodesInLayer[index]))]]

\* the meshes of one layer
buildLayer(nodesInLayer, layerIndex, id) ==
  [index \in 1..Len(nodesInLayer) |->
     LET created == createNodeMesh(nodesInLayer[index], id + 2 * (index - 1))
     IN  [created EXCEPT !.pos = [kind |-> "circle", x2 |-> 0, radius |-> layerRadius(layerIndex),
                                  k |-> index - 1, n |-> Len(nodesInLayer)],
                         !.children = Append(created.children, createLabel(nodesInLayer[index]))]]

\* "Render layer nodes": nodesByLayer.forEach in insertion order of the keys
RECURSIVE buildLayers(_, _, _, _)
buildLayers(layerNodes, keys, k, id) ==
  IF k > Len(keys) THEN [objs |-> <<>>, next |-> id]
  ELSE LET nodesInLayer == SelectSeq(layerNodes, LAMBDA n : n.layerOrder = keys[k])
           rest == buildLayers(layerNodes, keys, k + 1, id + 2 * Len(nodesInLayer))
       IN  [objs |-> buildLayer(nodesInLayer, keys[k], id) \o rest.objs, next |-> rest.next]

\* the rebuild half of the update effect: the new children of the node group
\* and of the ring group, from (nodes, numberOfLayers), allocating from id
rebuild(nodes, numberOfLayers, id) ==
  LET centerNodes == SelectSeq(nodes, isCenterNode)
      layerNodes == SelectSeq(nodes, isLayerNode)
      keys == layerKeys(layerNodes, 1)
      centers == buildCenters(centerNodes, 0, id)
      rings == buildRings(MathMax(JSNum(numberOfLayers), keys), centers.next)
      layers == buildLayers(layerNodes, keys, 1, rings.next)
  IN  [nodeChildren |-> centers.objs \o layers.objs,
       ringChildren |-> rings.objs,
       next |-> layers.next]

(* ------------------------------------------------------------------ *)
(* The data the host delivers to the panel                             *)
(* ------------------------------------------------------------------ *)
s_b == <<98>>
s_c == <<99>>

Field(name, values) == [name |-> name, values |-> values]
Frame(fields) == [length |-> Len(fields[1].values), fields |-> fields]

\* one center and two nodes on layer 1
SeriesOneCenter ==
  << Frame(<< Field(s_id, <<JSStr(s_a), JSStr(s_b), JSStr(s_c)>>),
              Field(s_label, <<JSStr(s_T24), JSStr(s_b), JSStr(s_c)>>),
              Field(s_layerOrder, <<JSNum(0), JSNum(1), JSNum(1)>>),
              Field(s_isCenter, <<JSBool(TRUE), JSBool(FALSE), JSBool(FALSE)>>),
              Field(s_cifrb, <<JSNum(1500000), JSNum(999), JSNum(0)>>) >>) >>

\* two centers, one node on the sparse layer 5 and one node of layer 0 that
\* is not a center, next to an aggregate frame
SeriesTwoCenters ==
  << Frame(<< Field(s_sumCIFRB, <<JSNum(10)>>), Field(s_sumCIFRBIn10Min, <<JSNum(1)>>) >>),
     Frame(<< Field(s_id, <<JSStr(s_a), JSStr(s_b), JSStr(s_c), JSStr(s_x)>>),
              Field(s_layerOrder, <<JSNum(0), JSNum(0), JSNum(5), JSNum(0)>>),
              Field(s_isCenter, <<JSNum(1), JSNum(1), JSNum(0), JSNum(0)>>) >>) >>

\* no center: two frames without an id column, layers 1 and 2
SeriesNoCenter ==
  << Frame(<< Field(s_label, <<JSStr(s_a), JSStr(s_b)>>),
              Field(s_layerOrder, <<JSNum(1), JSNum(2)>>) >>),
     Frame(<< Field(s_label, <<JSStr(s_c)>>) >>) >>

\* frames without node columns, and a node frame with zero rows
SeriesAggregateOnly ==
  << Frame(<< Field(s_sumCIFRB, <<JSNum(10)>>), Field(s_sumCIFRBIn10Min, <<JSNum(1)>>) >>),
     MakeFrame(<<s_id, s_label, s_layerOrder>>, 0) >>

\* a node on layer 1 and a node whose layerOrder cell is the text "x"
SeriesMalformedLayer ==
  << Frame(<< Field(s_id, <<JSStr(s_a), JSStr(s_b)>>),
              Field(s_layerOrder, <<JSNum(1), JSStr(s_x)>>) >>) >>

SeriesPool ==
  { <<>>, SeriesAggregateOnly, SeriesOneCenter, SeriesTwoCenters, SeriesNoCenter,
    SeriesMalformedLayer }

(* ------------------------------------------------------------------ *)
(* State                                                               *)
(* ------------------------------------------------------------------ *)
VARIABLES
  pIn,         \* parser run: the frames handed to parseNodesFromDataFrame
  pOut,        \* parser run: the records it returned
  pc,          \* parser run: "start", then "parsed" or "totals"; "idle" in the panel runs
  tOut,        \* parser run: the totals parseTransactionData returned
  fIn,         \* formatter run: the number and the locale of the host
  fOut,        \* formatter run: the text of each formatNumber, <<>> before it ran
  clock,       \* the InfoPanel instance, its timers and the wall clock of the host
  panel,       \* the SimplePanel instance: "live" or "gone"
  props,       \* its current props: size, numberOfLayers, series, and the memoised nodes
  view,        \* what SimplePanel returned last: "none", "placeholder", "scene"
  pending,     \* effects of the current commit still to run, in order
  inst,        \* the ThreeVisualize3D instance: "none", "mounted", "failed", "abandoned"
  refs,        \* its useRef cells
  container,   \* DOM children of the container div
  gl,          \* renderer, label renderer and camera settings
  cleanup,     \* TRUE when the mount effect returned its cleanup function
  nodeGroup,   \* the node group: rotation (thousandths) and children
  ringsGroup,  \* the children of the ring group
  raf,         \* requestAnimationFrame: pending request ids and the next id
  heap,        \* geometry/material pairs: next identity, dispose count of each
  hist         \* counters of what has run

vars == << pIn, pOut, pc, tOut, fIn, fOut, clock, panel, props, view, pending, inst, refs, container, gl,
           cleanup, nodeGroup, ringsGroup, raf, heap, hist >>

parserVars == << pIn, pOut, pc, tOut, fIn, fOut, clock >>
sceneVars == << panel, props, view, pending, inst, refs, container, gl,
                cleanup, nodeGroup, ringsGroup, raf, heap, hist >>

Sizes == { <<400, 300>>, <<800, 600>> }
LayerChoices == { 2, 3 }
DefaultLayers == 3

NullRefs ==
  [scene |-> FALSE, camera |-> FALSE, renderer |-> FALSE, labelRenderer |-> FALSE,
   controls |-> FALSE, nodeGroup |-> FALSE, ringsGroup |-> FALSE, frameId |-> 0,
   isInitialized |-> FALSE]

SceneInit ==
  /\ panel = "live"
  /\ props = [size |-> <<400, 300>>, numberOfLayers |-> DefaultLayers, series |-> <<>>,
              dataRef |-> 0, nodes |-> <<>>]
  /\ view = "none"
  /\ pending = <<>>
  /\ inst = "none"
  /\ refs = NullRefs
  /\ container = <<>>
  /\ gl = [size |-> <<0, 0>>, labelSize |-> <<0, 0>>, aspect |-> <<0, 0>>,
           disposed |-> FALSE, made |-> 0]
  /\ cleanup = FALSE
  /\ nodeGroup = [rot |-> 0, children |-> <<>>]
  /\ ringsGroup = <<>>
  /\ raf = [queue |-> {}, next |-> 1]
  /\ heap = [next |-> 1, disposals |-> <<>>]
  /\ hist = [renders |-> 0, mounts |-> 0, rebuilds |-> 0, cleanups |-> 0, frames |-> 0,
             resizes |-> 0]

(* ------------------------------------------------------------------ *)
(* InfoPanel: the date of the host, its text, and the interval timers   *)
(* ------------------------------------------------------------------ *)
\* str.padStart(targetLength, padString)
padStart(str, targetLength, padString) ==
  IF Len(str) >= targetLength \/ Len(padString) = 0 THEN str
  ELSE [i \in 1..(targetLength - Len(str)) |-> padString[((i - 1) % Len(padString)) + 1]] \o str

\* the second of the day at which the model starts: 09:59:58
StartOfRun == 9 * 3600 + 59 * 60 + 58

\* new Date(): the local date and time of the host, elapsed seconds after
\* the start of the run, on 2026-11-04 (getMonth() counts from 0)
DateAt(elapsed) ==
  LET second == (StartOfRun + elapsed) % 86400
  IN  [fullYear |-> 2026, month |-> 10, date |-> 4 + ((StartOfRun + elapsed) \div 86400),
       hours |-> second \div 3600, minutes |-> (second % 3600) \div 60, seconds |-> second % 60]

\* formatDateTime: year-month-day hours:minutes:seconds, each but the year
\* padded to two digits
formatDateTime(date) ==
  LET two(k) == padStart(String(JSNum(k)), 2, <<48>>)
  IN  String(JSNum(date.fullYear)) \o <<45>> \o two(date.month + 1) \o <<45>> \o two(date.date)
      \o <<32>> \o two(date.hours) \o <<58>> \o two(date.minutes) \o <<58>> \o two(date.seconds)

\* setInterval(callback, 1000) at second now: the timer id is due a second on
setInterval(timers, id, now) == timers \cup { [id |-> id, due |-> now + 1] }

\* variant of clearInterval: the timer stays
clearInterval_never(timers, id) == timers

\* clearInterval(intervalId)
clearInterval(timers, id) == { t \in timers : t.id # id }

\* what InfoPanel returns: the three values of its rows
InfoPanel(data, currentTime, locale) ==
  [time |-> formatDateTime(currentTime),
   total |-> InfoPanel_formatNumber(data.sumCIFRB, locale),
   recent |-> InfoPanel_formatNumber(data.sumCIFRBIn10Min, locale)]

\* the aggregate snapshots the host hands to InfoPanel
Snapshots == { ZeroTotals, [sumCIFRB |-> JSNum(1500000), sumCIFRBIn10Min |-> JSNum(7)] }

NoClock ==
  [inst |-> "none", props |-> ZeroTotals, currentTime |-> DateAt(0),
   shown |-> [time |-> <<>>, total |-> <<>>, recent |-> <<>>],
   timers |-> {}, nextTimer |-> 1, intervalId |-> 0, now |-> 0,
   mounts |-> 0, renders |-> 0, ticks |-> 0, late |-> 0]

ClockIdle == clock = NoClock

NoTexts == [node |-> <<>>, info |-> <<>>, transaction |-> <<>>]
FormatIdle == fIn = [num |-> JSNum(0), locale |-> "en-US"] /\ fOut = NoTexts

Init ==
  /\ SceneInit
  /\ pIn = <<>> /\ pOut = <<>> /\ tOut = ZeroTotals /\ pc = "idle"
  /\ FormatIdle
  /\ ClockIdle

(* ------------------------------------------------------------------ *)
(* SimplePanel                                                         *)
(* ------------------------------------------------------------------ *)
\* variant of showsPlaceholder: only the frame collection is looked at
showsPlaceholder_seriesOnly(series, nodes) == Len(series) = 0

\* if (data.series.length === 0 || nodes.length === 0) return <PanelDataErrorView/>
showsPlaceholder(series, nodes) == Len(series) = 0 \/ Len(nodes) = 0

\* variant of updateDepsChanged: the size is among the dependencies
updateDepsChanged_withSize(old, new) ==
  old.dataRef # new.dataRef \/ old.numberOfLayers # new.numberOfLayers \/ old.size # new.size

\* variant of updateDepsChanged: nodes is missing from the dependencies
updateDepsChanged_layersOnly(old, new) == old.numberOfLayers # new.numberOfLayers

\* the dependency arrays of the two passive effects of ThreeVisualize3D:
\* [width, height] and [nodes, numberOfLayers]; nodes is compared by identity
resizeDepsChanged(old, new) == old.size # new.size
updateDepsChanged(old, new) ==
  old.dataRef # new.dataRef \/ old.numberOfLayers # new.numberOfLayers

\* variant of effectsOnUpdate: the scene is set up by an effect that depends
\* on [width, height], so a new size tears it down and mounts it again
effectsOnUpdate_remount(old, new) ==
  IF old.size # new.size THEN <<"cleanup", "mount", "resize", "update">>
  ELSE IF old.dataRef # new.dataRef \/ old.numberOfLayers # new.numberOfLayers
       THEN <<"update">> ELSE <<>>

effectsOnUpdate(old, new) ==
  (IF resizeDepsChanged(old, new) THEN <<"resize">> ELSE <<>>)
  \o (IF updateDepsChanged(old, new) THEN <<"update">> ELSE <<>>)

\* the effects React runs for one commit of SimplePanel: an instance that
\* stays runs the passive effects whose dependencies changed, an instance that
\* goes runs the cleanup of its mount effect, a new instance runs every effect
effectsOnRender(mounted, placeholder, old, new) ==
  IF mounted
  THEN IF placeholder THEN <<"cleanup">> ELSE effectsOnUpdate(old, new)
  ELSE IF placeholder THEN <<>> ELSE <<"mount", "resize", "update">>

\* One render of SimplePanel with the props of the host (a data refresh, a
\* new size, or an edit of the numberOfLayers option): the nodes are
\* memoised on data.series, the placeholder or the scene is returned, and the
\* commit queues the effects.  A scene rendered where none was mounted is a
\* new ThreeVisualize3D instance: new refs, a new container div.
Render(size, layers, refresh, newSeries) ==
  /\ panel = "live"
  /\ pending = <<>>
  /\ inst \in {"none", "mounted"}
  /\ hist.renders < MaxRefresh
  /\ view = "none" \/ refresh \/ size # props.size \/ layers # props.numberOfLayers
  /\ refresh \/ newSeries = props.series
  /\ layers # props.numberOfLayers => (size = props.size /\ ~refresh)
  /\ size # props.size => ~refresh
  /\ LET series == IF refresh THEN newSeries ELSE props.series
         nodes == IF refresh THEN parseNodesFromDataFrame(newSeries) ELSE props.nodes
         new == [size |-> size, numberOfLayers |-> layers, series |-> series,
                 dataRef |-> IF refresh THEN props.dataRef + 1 ELSE props.dataRef,
                 nodes |-> nodes]
         placeholder == showsPlaceholder(series, nodes)
         created == inst # "mounted" /\ ~placeholder
     IN  /\ props' = new
         /\ view' = IF placeholder THEN "placeholder" ELSE "scene"
         /\ pending' = effectsOnRender(inst = "mounted", placeholder, props, new)
         /\ refs' = IF created THEN NullRefs ELSE refs
         /\ container' = IF created THEN <<>> ELSE container
         /\ cleanup' = IF created THEN FALSE ELSE cleanup
         /\ nodeGroup' = IF created THEN [rot |-> 0, children |-> <<>>] ELSE nodeGroup
         /\ ringsGroup' = IF created THEN <<>> ELSE ringsGroup
  /\ hist' = [hist EXCEPT !.renders = @ + 1]
  /\ UNCHANGED << panel, inst, gl, raf, heap >>
  /\ UNCHANGED parserVars

\* the host removes the panel: React unmounts SimplePanel and what it rendered
PanelUnmount ==
  /\ panel = "live"
  /\ pending = <<>>
  /\ view # "none"
  /\ panel' = "gone"
  /\ pending' = IF cleanup THEN <<"cleanup">> ELSE <<>>
  /\ inst' = IF inst = "failed" THEN "abandoned" ELSE inst
  /\ UNCHANGED << props, view, refs, container, gl, cleanup, nodeGroup, ringsGroup, raf, heap, hist >>
  /\ UNCHANGED parserVars

(* ------------------------------------------------------------------ *)
(* ThreeVisualize3D                                                    *)
(* ------------------------------------------------------------------ *)
\* the constructors of the mount effect that can throw, and the first call
\* of animate; "none" is a mount that runs to its end
MountFaults == { "none", "renderer", "labelRenderer", "controls", "firstFrame" }

\* how many of the stages of the mount effect have completed when it stops
stagesDone(fault) ==
  CASE fault = "renderer" -> 1
    [] fault = "labelRenderer" -> 2
    [] fault = "controls" -> 3
    [] fault = "firstFrame" -> 4
    [] fault = "none" -> 5

\* the rotations of one call of animate: the node group turns by 0.001 and
\* every child flagged isCenter or isCore with a rotationSpeed turns by it
spin(child) ==
  LET afterCenter == IF child.isCenter /\ child.speed # 0
                     THEN [child EXCEPT !.rot = @ + child.speed] ELSE child
  IN  IF afterCenter.isCore /\ afterCenter.speed # 0
      THEN [afterCenter EXCEPT !.rot = @ + afterCenter.speed] ELSE afterCenter

animated(group) ==
  [rot |-> group.rot + 1,
   children |-> [k \in 1..Len(group.children) |-> spin(group.children[k])]]

\* useLayoutEffect(() => {...}, []): the mount effect of a new instance
MountEffect(fault) ==
  /\ pending # <<>> /\ Head(pending) = "mount"
  /\ IF refs.isInitialized
     THEN /\ pending' = Tail(pending)
          /\ UNCHANGED << inst, refs, container, gl, cleanup, nodeGroup, ringsGroup, raf, hist >>
     ELSE LET done == stagesDone(fault)
          IN  /\ refs' = [scene |-> TRUE, camera |-> TRUE,
                          renderer |-> done > 1,
                          labelRenderer |-> done > 2,
                          controls |-> done > 3,
                          nodeGroup |-> done > 3,
                          ringsGroup |-> done > 3,
                          frameId |-> IF done > 3 THEN raf.next ELSE 0,
                          isInitialized |-> done > 4]
              /\ container' = (IF done > 1 THEN <<"canvas">> ELSE <<>>)
                              \o (IF done > 2 THEN <<"overlay">> ELSE <<>>)
              /\ gl' = [size |-> IF done > 1 THEN props.size ELSE <<0, 0>>,
                        labelSize |-> IF done > 2 THEN props.size ELSE <<0, 0>>,
                        aspect |-> props.size,
                        disposed |-> FALSE,
                        made |-> IF done > 1 THEN gl.made + 1 ELSE gl.made]
              /\ nodeGroup' = IF done > 3 THEN animated([rot |-> 0, children |-> <<>>])
                              ELSE nodeGroup
              /\ ringsGroup' = ringsGroup
              /\ raf' = IF done > 3
                        THEN [queue |-> raf.queue \cup {raf.next}, next |-> raf.next + 1]
                        ELSE raf
              /\ cleanup' = (done > 4)
              /\ inst' = IF done > 4 THEN "mounted" ELSE "failed"
              /\ pending' = IF done > 4 THEN Tail(pending) ELSE <<>>
              /\ hist' = [hist EXCEPT !.mounts = @ + 1]
  /\ UNCHANGED << panel, props, view, heap >>
  /\ UNCHANGED parserVars

\* useEffect(() => {...}, [width, height]): the resize effect
ResizeEffect ==
  /\ pending # <<>> /\ Head(pending) = "resize"
  /\ pending' = Tail(pending)
  /\ IF ~refs.renderer \/ ~refs.labelRenderer \/ ~refs.camera
     THEN UNCHANGED << gl, hist >>
     ELSE /\ gl' = [gl EXCEPT !.size = props.size, !.labelSize = props.size,
                              !.aspect = props.size]
          /\ hist' = [hist EXCEPT !.resizes = @ + 1]
  /\ UNCHANGED << panel, props, view, inst, refs, container, cleanup, nodeGroup,
                  ringsGroup, raf, heap >>
  /\ UNCHANGED parserVars

\* geometry.dispose() and material.dispose() on each of ids
RECURSIVE dispose(_, _)
dispose(disposals, ids) ==
  IF Len(ids) = 0 THEN disposals
  ELSE dispose([disposals EXCEPT ![Head(ids)] = @ + 1], Tail(ids))

\* useEffect(() => {...}, [nodes, numberOfLayers]): the update effect
UpdateEffect ==
  /\ pending # <<>> /\ Head(pending) = "update"
  /\ pending' = Tail(pending)
  /\ IF ~refs.nodeGroup \/ ~refs.ringsGroup
     THEN UNCHANGED << nodeGroup, ringsGroup, heap, hist >>
     ELSE LET clearedNodes == clearGroup(nodeGroup.children)
              clearedRings == clearGroup(ringsGroup)
              built == rebuild(props.nodes, props.numberOfLayers, heap.next)
          IN  /\ nodeGroup' = [nodeGroup EXCEPT !.children = clearedNodes.left \o built.nodeChildren]
              /\ ringsGroup' = clearedRings.left \o built.ringChildren
              /\ heap' = [next |-> built.next,
                          disposals |-> dispose(heap.disposals,
                                                clearedNodes.disposed \o clearedRings.disposed)
                                        \o [k \in 1..(built.next - heap.next) |-> 0]]
              /\ hist' = [hist EXCEPT !.rebuilds = @ + 1]
  /\ UNCHANGED << panel, props, view, inst, refs, container, gl, cleanup, raf >>
  /\ UNCHANGED parserVars

\* variant of cancelAnimationFrame: the request of the frame before is
\* cancelled, not the pending one
cancelAnimationFrame_stale(queue, id) == queue \ {id - 1}

\* cancelAnimationFrame(frameIdRef.current)
cancelAnimationFrame(queue, id) == queue \ {id}

\* the function returned by the mount effect, run when the instance unmounts
CleanupEffect ==
  /\ pending # <<>> /\ Head(pending) = "cleanup"
  /\ pending' = Tail(pending)
  /\ raf' = [raf EXCEPT !.queue = cancelAnimationFrame(@, refs.frameId)]
  /\ gl' = IF refs.renderer THEN [gl EXCEPT !.disposed = TRUE] ELSE gl
  /\ container' = SelectSeq(container,
                    LAMBDA el : ~(el = "canvas" /\ refs.renderer)
                                /\ ~(el = "overlay" /\ refs.labelRenderer))
  /\ refs' = [refs EXCEPT !.isInitialized = FALSE]
  /\ inst' = "none"
  /\ cleanup' = FALSE
  /\ hist' = [hist EXCEPT !.cleanups = @ + 1]
  /\ UNCHANGED << panel, props, view, nodeGroup, ringsGroup, heap >>
  /\ UNCHANGED parserVars

\* one frame callback: animate, called by the browser for request id
Animate(id) ==
  /\ id \in raf.queue
  /\ hist.frames < MaxTicks
  /\ IF pending = <<>> THEN TRUE ELSE Head(pending) \in {"resize", "update"}
  /\ raf' = [queue |-> (raf.queue \ {id}) \cup {raf.next}, next |-> raf.next + 1]
  /\ refs' = [refs EXCEPT !.frameId = raf.next]
  /\ nodeGroup' = IF refs.nodeGroup THEN animated(nodeGroup) ELSE nodeGroup
  /\ hist' = [hist EXCEPT !.frames = @ + 1]
  /\ UNCHANGED << panel, props, view, pending, inst, container, gl, cleanup, ringsGroup, heap >>
  /\ UNCHANGED parserVars

Next ==
  \/ \E size \in Sizes, layers \in LayerChoices, refresh \in BOOLEAN, newSeries \in SeriesPool :
       Render(size, layers, refresh, newSeries)
  \/ PanelUnmount
  \/ \E fault \in MountFaults : MountEffect(fault)
  \/ ResizeEffect
  \/ UpdateEffect
  \/ CleanupEffect
  \/ \E id \in raf.queue : Animate(id)

Spec == Init /\ [][Next]_vars

(* ------------------------------------------------------------------ *)
(* A run of the update effect on a scene with given contents           *)
(* ------------------------------------------------------------------ *)
\* the node lists of the series that have records
NodeLists == { parseNodesFromDataFrame(series) : series \in SeriesPool } \ { <<>> }

\* what the groups hold when a rebuild of (nodes, numberOfLayers) into empty
\* groups stopped with count objects added: the center visuals first, then the
\* rings, then the layer visuals; the whole build for the highest count
stoppedAfter(nodes, numberOfLayers, count) ==
  LET built == rebuild(nodes, numberOfLayers, 1)
      centers == Len(SelectSeq(built.nodeChildren, LAMBDA o : o.isCenter \/ o.isCore))
      rings == Len(built.ringChildren)
  IN  [nodeChildren |-> SubSeq(built.nodeChildren, 1,
                               IF count <= centers THEN count
                               ELSE IF count <= centers + rings THEN centers
                               ELSE count - rings),
       ringChildren |-> SubSeq(built.ringChildren, 1,
                               IF count <= centers THEN 0
                               ELSE IF count <= centers + rings THEN count - centers
                               ELSE rings),
       next |-> built.next]

\* the contents a rebuild can find: nothing, a whole earlier build, or the
\* part of an earlier build that was added before it stopped
PriorScenes ==
  UNION { { stoppedAfter(nodes, layers, count) :
              count \in 0..(Len(rebuild(nodes, layers, 1).nodeChildren)
                               + Len(rebuild(nodes, layers, 1).ringChildren)) } :
          nodes \in NodeLists, layers \in LayerChoices }

RebuildInit ==
  /\ panel = "live"
  /\ view = "scene"
  /\ inst = "mounted"
  /\ pending = <<"update">>
  /\ refs = [scene |-> TRUE, camera |-> TRUE, renderer |-> TRUE, labelRenderer |-> TRUE,
             controls |-> TRUE, nodeGroup |-> TRUE, ringsGroup |-> TRUE, frameId |-> 1,
             isInitialized |-> TRUE]
  /\ container = <<"canvas", "overlay">>
  /\ gl = [size |-> <<400, 300>>, labelSize |-> <<400, 300>>, aspect |-> <<400, 300>>,
           disposed |-> FALSE, made |-> 1]
  /\ cleanup = TRUE
  /\ raf = [queue |-> {1}, next |-> 2]
  /\ hist = [renders |-> 1, mounts |-> 1, rebuilds |-> 0, cleanups |-> 0, frames |-> 0,
             resizes |-> 0]
  /\ \E series \in SeriesPool, layers \in LayerChoices, prior \in PriorScenes :
       /\ Len(parseNodesFromDataFrame(series)) > 0
       /\ props = [size |-> <<400, 300>>, numberOfLayers |-> layers, series |-> series,
                   dataRef |-> 1, nodes |-> parseNodesFromDataFrame(series)]
       /\ nodeGroup = [rot |-> 0, children |-> prior.nodeChildren]
       /\ ringsGroup = prior.ringChildren
       /\ heap = [next |-> prior.next, disposals |-> [k \in 1..(prior.next - 1) |-> 0]]
  /\ pIn = <<>> /\ pOut = <<>> /\ tOut = ZeroTotals /\ pc = "idle"
  /\ FormatIdle
  /\ ClockIdle

RebuildNext == UpdateEffect

RebuildSpec == RebuildInit /\ [][RebuildNext]_vars

(* ------------------------------------------------------------------ *)
(* A run of the parser on its own                                      *)
(* ------------------------------------------------------------------ *)
ParseInit ==
  /\ SceneInit
  /\ pIn \in SeqsUpTo(FramePool, MaxFrames)
  /\ pOut = <<>> /\ tOut = ZeroTotals /\ pc = "start"
  /\ FormatIdle
  /\ ClockIdle

ParseNodes ==
  /\ pc = "start"
  /\ pOut' = parseNodesFromDataFrame(pIn)
  /\ pc' = "parsed"
  /\ UNCHANGED << pIn, tOut, fIn, fOut, clock >>
  /\ UNCHANGED sceneVars

ParseTotals ==
  /\ pc = "start"
  /\ tOut' = parseTransactionData(pIn)
  /\ pc' = "totals"
  /\ UNCHANGED << pIn, pOut, fIn, fOut, clock >>
  /\ UNCHANGED sceneVars

ParseNext == ParseNodes \/ ParseTotals

ParseSpec == ParseInit /\ [][ParseNext]_vars

(* ------------------------------------------------------------------ *)
(* A run of the three formatters on one number                         *)
(* ------------------------------------------------------------------ *)
FormatInit ==
  /\ SceneInit
  /\ pIn = <<>> /\ pOut = <<>> /\ tOut = ZeroTotals /\ pc = "format"
  /\ fIn \in [num : FormatInputs, locale : Locales]
  /\ fOut = NoTexts
  /\ ClockIdle

FormatNodeLabel ==
  /\ pc = "format" /\ fOut.node = <<>>
  /\ fOut' = [fOut EXCEPT !.node = formatNumber(fIn.num)]
  /\ UNCHANGED << pIn, pOut, pc, tOut, fIn, clock >>
  /\ UNCHANGED sceneVars

FormatInfoPanel ==
  /\ pc = "format" /\ fOut.info = <<>>
  /\ fOut' = [fOut EXCEPT !.info = InfoPanel_formatNumber(fIn.num, fIn.locale)]
  /\ UNCHANGED << pIn, pOut, pc, tOut, fIn, clock >>
  /\ UNCHANGED sceneVars

FormatTransactionPanel ==
  /\ pc = "format" /\ fOut.transaction = <<>>
  /\ fOut' = [fOut EXCEPT !.transaction = TransactionPanel_formatNumber(fIn.num, fIn.locale)]
  /\ UNCHANGED << pIn, pOut, pc, tOut, fIn, clock >>
  /\ UNCHANGED sceneVars

FormatNext == FormatNodeLabel \/ FormatInfoPanel \/ FormatTransactionPanel

FormatSpec == FormatInit /\ [][FormatNext]_vars

(* ------------------------------------------------------------------ *)
(* The life of InfoPanel instances                                     *)
(* ------------------------------------------------------------------ *)
\* clock.inst: "none", "rendered" (committed, the interval effect still to
\* run), "mounted", "gone"
ClockInit ==
  /\ SceneInit
  /\ pIn = <<>> /\ pOut = <<>> /\ tOut = ZeroTotals /\ pc = "clock"
  /\ FormatIdle
  /\ ClockIdle

\* the first render of an instance: useState(new Date()) and the rows
InfoPanelMount(data) ==
  /\ pc = "clock"
  /\ clock.inst \in {"none", "gone"}
  /\ clock.mounts < MaxInstances
  /\ clock' = [clock EXCEPT !.inst = "rendered", !.props = data,
                            !.currentTime = DateAt(clock.now),
                            !.shown = InfoPanel(data, DateAt(clock.now), "en-US"),
                            !.intervalId = 0, !.mounts = @ + 1]
  /\ UNCHANGED << pIn, pOut, pc, tOut, fIn, fOut >>
  /\ UNCHANGED sceneVars

\* useEffect(() => { const intervalId = setInterval(...) ... }, [])
IntervalEffect ==
  /\ pc = "clock"
  /\ clock.inst = "rendered"
  /\ clock' = [clock EXCEPT !.inst = "mounted",
                            !.timers = setInterval(@, clock.nextTimer, clock.now),
                            !.intervalId = clock.nextTimer,
                            !.nextTimer = @ + 1]
  /\ UNCHANGED << pIn, pOut, pc, tOut, fIn, fOut >>
  /\ UNCHANGED sceneVars

\* a render with new props: the state stays, the effect (no dependencies)
\* does not run again
InfoPanelProps(data) ==
  /\ pc = "clock"
  /\ clock.inst = "mounted"
  /\ data # clock.props
  /\ clock.renders < MaxRefresh
  /\ clock' = [clock EXCEPT !.props = data,
                            !.shown = InfoPanel(data, clock.currentTime, "en-US"),
                            !.renders = @ + 1]
  /\ UNCHANGED << pIn, pOut, pc, tOut, fIn, fOut >>
  /\ UNCHANGED sceneVars

\* a second of wall-clock time passes
SecondPasses ==
  /\ pc = "clock"
  /\ clock.now < MaxSeconds
  /\ clock' = [clock EXCEPT !.now = @ + 1]
  /\ UNCHANGED << pIn, pOut, pc, tOut, fIn, fOut >>
  /\ UNCHANGED sceneVars

\* the callback of a timer that is due: setCurrentTime(new Date()), and the
\* render it causes; on an instance that is gone the update is dropped
IntervalTick(timer) ==
  /\ pc = "clock"
  /\ timer \in clock.timers
  /\ timer.due <= clock.now
  /\ LET rearmed == (clock.timers \ {timer}) \cup { [timer EXCEPT !.due = clock.now + 1] }
     IN  clock' = IF clock.inst \in {"rendered", "mounted"}
                  THEN [clock EXCEPT !.timers = rearmed,
                                     !.currentTime = DateAt(clock.now),
                                     !.shown = InfoPanel(clock.props, DateAt(clock.now), "en-US"),
                                     !.ticks = @ + 1]
                  ELSE [clock EXCEPT !.timers = rearmed, !.late = @ + 1]
  /\ UNCHANGED << pIn, pOut, pc, tOut, fIn, fOut >>
  /\ UNCHANGED sceneVars

\* the instance unmounts: the cleanup of the interval effect runs
InfoPanelUnmount ==
  /\ pc = "clock"
  /\ clock.inst = "mounted"
  /\ clock' = [clock EXCEPT !.inst = "gone",
                            !.timers = clearInterval(@, clock.intervalId)]
  /\ UNCHANGED << pIn, pOut, pc, tOut, fIn, fOut >>
  /\ UNCHANGED sceneVars

ClockNext ==
  \/ \E data \in Snapshots : InfoPanelMount(data)
  \/ IntervalEffect
  \/ \E data \in Snapshots : InfoPanelProps(data)
  \/ SecondPasses
  \/ \E timer \in clock.timers : IntervalTick(timer)
  \/ InfoPanelUnmount

ClockSpec == ClockInit /\ [][ClockNext]_vars

(* ------------------------------------------------------------------ *)
(* Properties of parseNodesFromDataFrame (ParseSpec)                   *)
(* ------------------------------------------------------------------ *)
\* the frame has a column of that name, compared without regard to case
HasColumn(frame, name) ==
  \E j \in 1..Len(frame.fields) : toLowerCase(frame.fields[j].name) = toLowerCase(name)

HasNodeColumn(frame) ==
  HasColumn(frame, s_id) \/ HasColumn(frame, s_label) \/ HasColumn(frame, s_layerOrder)

HasAllNodeColumns(frame) ==
  HasColumn(frame, s_id) /\ HasColumn(frame, s_label) /\ HasColumn(frame, s_layerOrder)

RECURSIVE SumFirst(_, _)
\* the sum of the first k entries of a sequence of numbers
SumFirst(counts, k) == IF k = 0 THEN 0 ELSE SumFirst(counts, k - 1) + counts[k]

\* rows of each frame that has a node column, and of each that has all three
KeptRows(frames) ==
  [k \in 1..Len(frames) |-> IF HasNodeColumn(frames[k]) THEN frames[k].length ELSE 0]
CompleteRows(frames) ==
  [k \in 1..Len(frames) |-> IF HasAllNodeColumns(frames[k]) THEN frames[k].length ELSE 0]

\* position in the output before the records of frame k
RowsBefore(k) == SumFirst(KeptRows(pIn), k - 1)

\* C8: the output holds, in frame order and then row order, exactly one
\* record for every row of each frame that has at least one of the columns
\* id, label, layerOrder and nothing for the other frames; so its length is the
\* total row count of those frames, and input without rows gives the empty
\* sequence.
C8_RecordPerRow ==
  pc = "parsed" =>
    /\ Len(pOut) = RowsBefore(Len(pIn) + 1)
    /\ \A k \in 1..Len(pIn) :
         HasNodeColumn(pIn[k]) =>
           \A i \in 0..(pIn[k].length - 1) :
             /\ RowsBefore(k) + i + 1 <= Len(pOut)
             /\ pOut[RowsBefore(k) + i + 1] = parseRow(pIn[k], i)
    /\ (\A k \in 1..Len(pIn) : pIn[k].length = 0) => pOut = <<>>

\* a frame with rows but without node columns, followed by a frame with two
\* rows and a node column: only the rows of the second are in the output
C8_Witness ==
  /\ pc = "parsed"
  /\ Len(pIn) = 2
  /\ ~HasNodeColumn(pIn[1]) /\ pIn[1].length = 2
  /\ HasNodeColumn(pIn[2]) /\ pIn[2].length = 2
  /\ Len(pOut) = 2

\* C9 as stated: a frame that misses one of the columns id, label,
\* layerOrder contributes no record, so the output is no longer than the rows
\* of the frames that have all three.
C9_AnyMissingColumnSkips ==
  pc = "parsed" => Len(pOut) <= SumFirst(CompleteRows(pIn), Len(pIn))

\* C9 amended: a frame contributes no record exactly when it misses all three
\* of id, label, layerOrder; a frame that misses one or two of them still
\* contributes one record per row.
C9_AllMissingColumnsSkip ==
  pc = "parsed" =>
    /\ Len(pOut) = SumFirst(KeptRows(pIn), Len(pIn))
    /\ (\A k \in 1..Len(pIn) : ~HasNodeColumn(pIn[k])) => pOut = <<>>
    /\ \A k \in 1..Len(pIn) :
         (HasNodeColumn(pIn[k]) /\ ~HasAllNodeColumns(pIn[k])) => Len(pOut) >= pIn[k].length

\* a frame with rows that misses all three next to one that misses only one
C9_Witness ==
  /\ pc = "parsed"
  /\ Len(pIn) = 2
  /\ ~HasNodeColumn(pIn[1]) /\ pIn[1].length = 2
  /\ HasNodeColumn(pIn[2]) /\ ~HasColumn(pIn[2], s_layerOrder) /\ pIn[2].length = 1
  /\ Len(pOut) = 1

\* the decimal text of a row index below ten
IndexText(i) == <<48 + i>>

\* C10: in a frame that is not skipped, row i (counted within its own frame)
\* gets id "node-<i>" when the id column is missing, label "Node <i>" when
\* the label column is missing and layerOrder 1 when the layerOrder column is
\* missing; each metric attribute is present on the record exactly when the
\* frame has that column, so a missing metric is absent and never 0.
C10_Defaults ==
  pc = "parsed" =>
    \A k \in 1..Len(pIn) :
      HasNodeColumn(pIn[k]) =>
        \A i \in 0..(pIn[k].length - 1) :
          LET r == pOut[RowsBefore(k) + i + 1]
          IN  /\ ~HasColumn(pIn[k], s_id) => r.id = <<110, 111, 100, 101, 45>> \o IndexText(i)
              /\ ~HasColumn(pIn[k], s_label) => r.label = <<78, 111, 100, 101, 32>> \o IndexText(i)
              /\ ~HasColumn(pIn[k], s_layerOrder) => r.layerOrder = JSNum(1)
              /\ \A m \in 1..Len(MetricKeys) :
                   (MetricKeys[m] \in DOMAIN r) <=> HasColumn(pIn[k], MetricNames[m])

\* a second frame without id and without metrics: its row 1 is "node-1"
\* although it is the fourth record of the output
C10_Witness ==
  /\ pc = "parsed"
  /\ Len(pIn) = 2
  /\ HasColumn(pIn[1], s_id) /\ HasColumn(pIn[1], s_ccu) /\ pIn[1].length = 2
  /\ ~HasColumn(pIn[2], s_id) /\ ~HasColumn(pIn[2], s_layerOrder) /\ pIn[2].length = 2
  /\ Len(pOut) = 4
  /\ pOut[4].id = <<110, 111, 100, 101, 45, 49>>
  /\ pOut[4].layerOrder = JSNum(1)
  /\ "ccu" \in DOMAIN pOut[1] /\ "ccu" \notin DOMAIN pOut[4]

\* C11: the records returned by one call have pairwise distinct ids.
C11_UniqueIds ==
  pc = "parsed" =>
    \A a \in 1..Len(pOut) : \A b \in 1..Len(pOut) : a # b => pOut[a].id # pOut[b].id

\* a string that is the text of a number: empty (0) or optionally signed digits
NumericText(str) ==
  \/ Len(str) = 0
  \/ \A j \in 1..Len(str) : str[j] \in 48..57
  \/ Len(str) > 1 /\ str[1] \in {43, 45} /\ \A j \in 2..Len(str) : str[j] \in 48..57

\* a cell without a numeric value: NaN itself, or text that is not a number
Malformed(cell) == cell.t = "nan" \/ (cell.t = "str" /\ ~NumericText(cell.s))

\* the cell of row i in the first column of that name
CellOf(frame, name, i) == findField(frame, name).values[i + 1]

\* C12: a malformed cell in the layerOrder column or in a metric column gives
\* NaN in the record of its row: the record is emitted at its position, the
\* attribute is present and it is NaN, not 0, not a default, not absent.
C12_NaNPropagates ==
  pc = "parsed" =>
    /\ Len(pOut) = RowsBefore(Len(pIn) + 1)
    /\ \A k \in 1..Len(pIn) :
         HasNodeColumn(pIn[k]) =>
           \A i \in 0..(pIn[k].length - 1) :
             LET r == pOut[RowsBefore(k) + i + 1]
             IN  /\ (HasColumn(pIn[k], s_layerOrder) /\ Malformed(CellOf(pIn[k], s_layerOrder, i)))
                      => r.layerOrder = JSNaN
                 /\ \A m \in 1..Len(MetricKeys) :
                      (HasColumn(pIn[k], MetricNames[m]) /\ Malformed(CellOf(pIn[k], MetricNames[m], i)))
                        => (MetricKeys[m] \in DOMAIN r /\ r[MetricKeys[m]] = JSNaN)

\* a row whose layerOrder cell and whose transactions cell are the text "x":
\* its record has NaN in both, next to a well-formed ccu
C12_Witness ==
  /\ pc = "parsed"
  /\ \E k \in 1..Len(pOut) :
       /\ pOut[k].layerOrder = JSNaN
       /\ "transactions" \in DOMAIN pOut[k] /\ pOut[k].transactions = JSNaN
       /\ "ccu" \in DOMAIN pOut[k] /\ pOut[k].ccu = JSNum(1000)

\* text spells the lower-case word, in any mix of upper and lower case
Spells(text, word) ==
  /\ Len(text) = Len(word)
  /\ \A j \in 1..Len(word) : text[j] = word[j] \/ text[j] = word[j] - 32

\* C15: in every record of a frame with a size column the size is small when
\* the text of the cell spells "sm" or "small" in any letter case, large when
\* it spells "lg" or "large", and medium for any other text, the empty
\* string and the text of a null cell included; in every record of a frame
\* without a size column the size is medium.
C15_SizeNormalized ==
  pc = "parsed" =>
    \A k \in 1..Len(pIn) :
      HasNodeColumn(pIn[k]) =>
        \A i \in 0..(pIn[k].length - 1) :
          LET r == pOut[RowsBefore(k) + i + 1]
              text == String(CellOf(pIn[k], s_size, i))
          IN  IF ~HasColumn(pIn[k], s_size) THEN r.size = <<109, 100>>
              ELSE IF Spells(text, <<115, 109>>) \/ Spells(text, <<115, 109, 97, 108, 108>>)
                   THEN r.size = <<115, 109>>
              ELSE IF Spells(text, <<108, 103>>) \/ Spells(text, <<108, 97, 114, 103, 101>>)
                   THEN r.size = <<108, 103>>
              ELSE r.size = <<109, 100>>

\* the frame of the size samples after a frame without a size column:
\* "Small" and "SMALL" are small, "LG" is large, the empty string, the null
\* cell and "medium" are medium, and so is the row without a size cell
C15_Witness ==
  /\ pc = "parsed"
  /\ Len(pIn) = 2
  /\ HasNodeColumn(pIn[1]) /\ ~HasColumn(pIn[1], s_size) /\ pIn[1].length = 1
  /\ pIn[2] = SizeFrame
  /\ Len(pOut) = 11
  /\ pOut[1].size = <<109, 100>>
  /\ pOut[4].size = <<115, 109>> /\ pOut[5].size = <<115, 109>>
  /\ pOut[7].size = <<108, 103>>
  /\ pOut[9].size = <<109, 100>> /\ pOut[10].size = <<109, 100>> /\ pOut[11].size = <<109, 100>>

\* the frame has one of the two aggregate columns
HasTotalsColumn(frame) == HasColumn(frame, s_sumCIFRB) \/ HasColumn(frame, s_sumCIFRBIn10Min)

\* the number a first-row cell stands for, 0 when it stands for none
FirstRowValue(frame, name) ==
  LET cell == CellOf(frame, name, 0)
  IN  IF Malformed(cell) THEN JSNum(0)
      ELSE IF cell.t = "str" THEN StringToNumber(cell.s)
      ELSE JSNum(cell.n)

\* the frames cut down to their first row
FirstRows(frames) ==
  [k \in 1..Len(frames) |->
     IF frames[k].length = 0 THEN frames[k]
     ELSE [length |-> 1,
           fields |-> [j \in 1..Len(frames[k].fields) |->
                         [name |-> frames[k].fields[j].name,
                          values |-> <<frames[k].fields[j].values[1]>>]]]]

\* C13: when no frame has a target column, and so for the empty collection,
\* the totals are {0, 0}; when the only frame with a target column has rows
\* and has one of the two, the total of that column is the number of its
\* first-row cell (0 when the cell is no number) and the other total is 0;
\* rows after the first never matter.
C13_AggregateTotals ==
  pc = "totals" =>
    /\ (\A k \in 1..Len(pIn) : ~HasTotalsColumn(pIn[k])) => tOut = ZeroTotals
    /\ Len(pIn) = 0 => tOut = ZeroTotals
    /\ \A k \in 1..Len(pIn) :
         (/\ pIn[k].length > 0
          /\ \A other \in 1..Len(pIn) : other # k => ~HasTotalsColumn(pIn[other])) =>
           /\ (HasColumn(pIn[k], s_sumCIFRB) /\ ~HasColumn(pIn[k], s_sumCIFRBIn10Min)) =>
                tOut = [sumCIFRB |-> FirstRowValue(pIn[k], s_sumCIFRB),
                        sumCIFRBIn10Min |-> JSNum(0)]
           /\ (~HasColumn(pIn[k], s_sumCIFRB) /\ HasColumn(pIn[k], s_sumCIFRBIn10Min)) =>
                tOut = [sumCIFRB |-> JSNum(0),
                        sumCIFRBIn10Min |-> FirstRowValue(pIn[k], s_sumCIFRBIn10Min)]
    /\ tOut = parseTransactionData(FirstRows(pIn))

\* a frame without target columns and a two-row frame that has only the
\* recent-window column, whose first row is the text "1000"
C13_Witness ==
  /\ pc = "totals"
  /\ Len(pIn) = 2
  /\ ~HasTotalsColumn(pIn[1]) /\ pIn[1].length = 2
  /\ ~HasColumn(pIn[2], s_sumCIFRB) /\ HasColumn(pIn[2], s_sumCIFRBIn10Min)
  /\ pIn[2].length = 2
  /\ tOut = [sumCIFRB |-> JSNum(0), sumCIFRBIn10Min |-> JSNum(1000)]

(* ------------------------------------------------------------------ *)
(* Properties of the formatters (FormatSpec)                           *)
(* ------------------------------------------------------------------ *)
\* text is the decimal numeral of the integer n, without padding
IsNumeral(text, n) ==
  IF n < 0
  THEN /\ Len(text) > 1 /\ text[1] = 45
       /\ AllDigits(Tail(text)) /\ DigitsValue(Tail(text)) = 0 - n /\ text[2] # 48
  ELSE /\ AllDigits(text) /\ DigitsValue(text) = n
       /\ (Len(text) = 1 \/ text[1] # 48)

\* the numeral with one decimal place of a count of tenths
TenthsText(tenths) == Digits(tenths \div 10) \o <<46>> \o Digits(tenths % 10)

\* text shows n / unit rounded to a nearest tenth, followed by the suffix
Abbreviates(text, n, unit, suffix) ==
  \E tenths \in { (10 * n) \div unit, ((10 * n) \div unit) + 1 } :
    /\ text = TenthsText(tenths) \o suffix
    /\ 2 * (10 * n - unit * tenths) <= unit
    /\ 2 * (unit * tenths - 10 * n) <= unit

\* the rule of the node label for the integer n
FollowsRule(text, n) ==
  /\ n < 1000 => IsNumeral(text, n)
  /\ (n >= 1000 /\ n < 1000000) => Abbreviates(text, n, 1000, <<75>>)
  /\ n >= 1000000 => Abbreviates(text, n, 1000000, <<77>>)
  /\ n = 999 => text = <<57, 57, 57>>
  /\ n = 1000 => text = <<49, 46, 48, 75>>
  /\ n = 1500000 => text = <<49, 46, 53, 77>>

NodeLabelFormatted == pc = "format" /\ fOut.node # <<>> /\ fIn.num.t = "num"

\* C16 as stated: the label text of an integer follows the rule, and a text
\* with the suffix K shows a value below 1000, so at most three digits before
\* the decimal point.
C16_AbbreviationBelowThousand ==
  NodeLabelFormatted =>
    /\ FollowsRule(fOut.node, fIn.num.n)
    /\ fOut.node[Len(fOut.node)] = 75 => Len(fOut.node) <= 6

\* C16 amended: the label text of an integer follows the rule; a text with
\* the suffix K shows a value below 1000 when n < 999950, and for
\* 999950 <= n < 1000000 the text is "1000.0K".
C16_Abbreviation ==
  NodeLabelFormatted =>
    /\ FollowsRule(fOut.node, fIn.num.n)
    /\ (fIn.num.n >= 1000 /\ fIn.num.n < 999950) => Len(fOut.node) <= 6
    /\ (fIn.num.n >= 999950 /\ fIn.num.n < 1000000) =>
         fOut.node = <<49, 48, 48, 48, 46, 48, 75>>

\* 999950 was formatted: below the M threshold, rounded up to "1000.0K"
C16_Witness ==
  /\ pc = "format"
  /\ fIn.num = JSNum(999950)
  /\ fOut.node = <<49, 48, 48, 48, 46, 48, 75>>

AllFormatted ==
  pc = "format" /\ fOut.node # <<>> /\ fOut.info # <<>> /\ fOut.transaction # <<>>

\* the text without the characters "," and "."
WithoutSeparators(text) == SelectSeq(text, LAMBDA c : c \notin {44, 46})

HasCenter(nodes) == \E k \in 1..Len(nodes) : nodes[k].isCenter

\* the commit is over and the scene is up
Settled == inst = "mounted" /\ pending = <<>>

NeverDisposedTwice == \A id \in 1..Len(heap.disposals) : heap.disposals[id] <= 1

\* C1 as stated: after two or more data updates the node group holds no more
\* objects than the latest node list has records, and no geometry or material
\* was disposed twice.
C1_NoMoreVisualsThanRecords ==
  /\ (Settled /\ hist.rebuilds >= 2) => Len(nodeGroup.children) <= Len(props.nodes)
  /\ NeverDisposedTwice

\* C1 amended: after any number of data updates the node group holds one
\* object per record of the latest node list plus the one inner core when the
\* list has a center node, so never more than the record count plus one; no
\* geometry or material was disposed twice.
C1_VisualsMatchRecords ==
  /\ Settled =>
       Len(nodeGroup.children) = Len(props.nodes) + (IF HasCenter(props.nodes) THEN 1 ELSE 0)
  /\ NeverDisposedTwice

\* a second rebuild has disposed the visuals of the first, and the list has a
\* center node
C1_Witness ==
  /\ Settled
  /\ hist.rebuilds >= 2
  /\ HasCenter(props.nodes)
  /\ Len(nodeGroup.children) = Len(props.nodes) + 1
  /\ \E id \in 1..Len(heap.disposals) : heap.disposals[id] = 1

\* C2: every geometry/material pair created by a rebuild is disposed exactly
\* once: never twice, and none is left undisposed once the scene is unmounted.
C2_ReleasedExactlyOnce ==
  /\ NeverDisposedTwice
  /\ (inst = "none" /\ pending = <<>>) =>
       \A id \in 1..Len(heap.disposals) : heap.disposals[id] = 1

\* C3 as stated: the mount step runs at most once for the SimplePanel
\* instance.
C3_MountOnce == hist.mounts <= 1

MountStep == hist'.mounts # hist.mounts
RenderStep == hist'.renders # hist.renders

\* C3 amended: the mount step runs once per ThreeVisualize3D instance: only
\* when no scene is mounted and every earlier mount was cleaned up; a render
\* that keeps the scene (data with records, a new size, a new numberOfLayers)
\* queues no mount and no cleanup; at most one renderer is alive at any time.
C3_MountPerInstance ==
  /\ [](gl.made - hist.cleanups <= 1 /\ hist.mounts - hist.cleanups <= 1)
  /\ [][ /\ MountStep => (inst = "none" /\ hist.mounts = hist.cleanups)
         /\ (RenderStep /\ inst = "mounted" /\ view' = "scene") =>
              (/\ \A k \in 1..Len(pending') : pending'[k] \in {"resize", "update"}
               /\ inst' = "mounted" /\ refs' = refs /\ container' = container) ]_vars

\* the scene was unmounted for a refresh without records and mounted again
C3_Witness ==
  /\ hist.mounts = 2
  /\ hist.cleanups = 1
  /\ Settled

ResizeStep == pending # <<>> /\ Head(pending) = "resize" /\ pending' = Tail(pending)
RebuildStep == hist'.rebuilds # hist.rebuilds

\* C4: a render that changes only the size of a mounted scene queues the
\* resize effect and nothing else; the resize effect sets the renderer size,
\* the label renderer size and the camera aspect and leaves the node group,
\* the ring group, the disposals and the renderer as they are; a rebuild runs
\* only in a commit whose render changed nodes or numberOfLayers, or mounted.
C4_ResizeInPlace ==
  [][ /\ (RenderStep /\ inst = "mounted" /\ props'.size # props.size
            /\ props'.dataRef = props.dataRef
            /\ props'.numberOfLayers = props.numberOfLayers) =>
           (pending' = <<"resize">> /\ nodeGroup' = nodeGroup /\ ringsGroup' = ringsGroup
              /\ heap' = heap /\ gl'.made = gl.made)
      /\ (ResizeStep /\ inst = "mounted") =>
           (/\ gl'.size = props.size /\ gl'.labelSize = props.size /\ gl'.aspect = props.size
            /\ gl'.made = gl.made /\ gl'.disposed = gl.disposed
            /\ nodeGroup' = nodeGroup /\ ringsGroup' = ringsGroup /\ heap' = heap)
      /\ (RenderStep /\ inst = "mounted" /\ \E k \in 1..Len(pending') : pending'[k] = "update") =>
           (props'.dataRef # props.dataRef \/ props'.numberOfLayers # props.numberOfLayers)
      /\ RebuildStep => Head(pending) = "update" ]_vars

\* a mounted scene with visuals was resized after its mount: two runs of the
\* resize effect, one rebuild, one renderer
C4_Witness ==
  /\ Settled
  /\ hist.mounts = 1 /\ hist.resizes = 2 /\ hist.rebuilds = 1
  /\ gl.size = props.size /\ gl.made = 1
  /\ Len(nodeGroup.children) > 0

AnimateStep == hist'.frames # hist.frames

\* C5: while the scene is mounted exactly one frame request is pending and
\* its id is the recorded one; each frame callback leaves exactly one pending
\* request, the recorded one; once the cleanup has run no request is pending,
\* so no callback runs, and neither surface is attached to the container.
C5_RenderLoop ==
  /\ [](/\ inst = "mounted" => raf.queue = {refs.frameId}
        /\ inst = "none" => (raf.queue = {} /\ container = <<>>))
  /\ [][AnimateStep => (inst # "none" /\ raf'.queue = {refs'.frameId}
                          /\ refs'.frameId # refs.frameId)]_vars

\* frames ran, then the cleanup
C5_Witness ==
  /\ hist.frames >= 2
  /\ hist.cleanups = 1
  /\ inst = "none"
  /\ raf.queue = {}
  /\ gl.disposed

\* C6: after a mount that stopped partway, unmounting leaves no surface
\* attached to the container and no render loop running.
C6_SafeAfterPartialMount ==
  inst = "abandoned" => (container = <<>> /\ raf.queue = {})

RECURSIVE CountGroups(_, _)
CountGroups(children, k) ==
  IF k > Len(children) THEN 0
  ELSE (IF children[k].type = "Group" THEN 1 ELSE 0) + CountGroups(children, k + 1)

\* C7: SimplePanel returns the placeholder exactly when the frame collection
\* is empty or parsing it yields no record, and the scene otherwise; the scene
\* gets the full parsed node list and numberOfLayers; a scene is mounted only
\* while the scene is what SimplePanel returned.
C7_PlaceholderOrScene ==
  view # "none" =>
    /\ view \in {"placeholder", "scene"}
    /\ (view = "placeholder") <=>
         (Len(props.series) = 0 \/ Len(parseNodesFromDataFrame(props.series)) = 0)
    /\ props.nodes = parseNodesFromDataFrame(props.series)
    /\ (view = "placeholder" /\ pending = <<>>) => inst # "mounted"
    /\ (view = "scene" /\ pending = <<>> /\ panel = "live") => inst \in {"mounted", "failed"}
    /\ Settled =>
         (/\ CountGroups(nodeGroup.children, 1) = Len(props.nodes)
          /\ Len(ringsGroup) = Len(rebuild(props.nodes, props.numberOfLayers, 1).ringChildren))

\* frames were delivered but none has a record: the placeholder replaces a
\* scene that was mounted before
C7_Witness ==
  /\ view = "placeholder"
  /\ Len(props.series) > 0
  /\ Len(props.nodes) = 0
  /\ hist.mounts = 1
  /\ inst = "none"
  /\ pending = <<>>

\* the highest layerOrder that is a number in the list, and at least floor
RECURSIVE HighestLayer(_, _)
HighestLayer(nodes, floor) ==
  IF Len(nodes) = 0 THEN floor
  ELSE HighestLayer(Tail(nodes),
                    IF Head(nodes).layerOrder.t = "num" /\ Head(nodes).layerOrder.n > floor
                    THEN Head(nodes).layerOrder.n ELSE floor)

\* C14: after a rebuild the ring group holds max(numberOfLayers, highest
\* layerOrder of the node list) rings, the i-th at radius 15 + (i - 1) * 7,
\* so the radii increase strictly and layers without nodes have their ring.
C14_RingPerLayer ==
  (Settled /\ hist.rebuilds >= 1) =>
    /\ Len(ringsGroup) = HighestLayer(props.nodes, props.numberOfLayers)
    /\ \A i \in 1..Len(ringsGroup) :
         /\ ringsGroup[i].type = "Line"
         /\ ringsGroup[i].pos.radius = JSNum(15 + (i - 1) * 7)
    /\ \A i \in 1..(Len(ringsGroup) - 1) :
         ringsGroup[i].pos.radius.n < ringsGroup[i + 1].pos.radius.n

\* the metric lines a label shows for a record: one line per metric attribute
\* that is present, in the order cifrb, ccu, transactions, transactionsIn10Min
RECURSIVE PresentPrefixes(_, _)
PresentPrefixes(record, m) ==
  IF m > Len(MetricKeys) THEN <<>>
  ELSE (IF MetricKeys[m] \in DOMAIN record THEN <<MetricPrefixes[m]>> ELSE <<>>)
       \o PresentPrefixes(record, m + 1)

\* the start of a metric line, up to and including ": "
RECURSIVE LinePrefix(_, _)
LinePrefix(line, k) ==
  IF k >= Len(line) THEN line
  ELSE IF line[k] = 58 /\ line[k + 1] = 32 THEN SubSeq(line, 1, k + 1)
  ELSE LinePrefix(line, k + 1)

\* the label of a node visual: its CSS2DObject child
LabelOf(group) == SelectSeq(group.children, LAMBDA child : child.type = "CSS2DObject")[1]

NodeVisuals == SelectSeq(nodeGroup.children, LAMBDA child : child.type = "Group")

\* C18: the label of every node visual of the scene, center or not, has one
\* metric line per metric present on the record of the visual, in the order
\* cifrb, ccu, transactions, transactionsIn10Min, and none for an absent one.
C18_LabelListsPresentMetrics ==
  (Settled /\ hist.rebuilds >= 1) =>
    /\ Len(NodeVisuals) = Len(props.nodes)
    /\ \A g \in 1..Len(NodeVisuals) :
         LET lines == LabelOf(NodeVisuals[g]).metrics
         IN  [k \in 1..Len(lines) |-> LinePrefix(lines[k], 1)]
               = PresentPrefixes(NodeVisuals[g].userData, 1)

\* the node visuals of the records that are not center nodes, and of those
\* that are, in the order of the node group
LayerVisuals == SelectSeq(NodeVisuals, LAMBDA g : ~g.userData.isCenter)
CenterVisuals == SelectSeq(NodeVisuals, LAMBDA g : g.userData.isCenter)

\* the records of the list that are not center nodes and have that layerOrder
LayerMates(nodes, layer) ==
  SelectSeq(nodes, LAMBDA r : ~r.isCenter /\ r.layerOrder = layer)

\* 15 + (L - 1) * 7 in the arithmetic of the source: NaN for L = NaN
RadiusOfLayer(layer) ==
  IF layer.t = "nan" THEN JSNaN ELSE JSNum(15 + (layer.n - 1) * 7)

\* C19: every record that is not a center node has one visual; the visual of
\* the k-th record (k from 0, list order) among the n records of its
\* layerOrder in the whole list is at step k of n equal steps of 2*pi/n on
\* the circle of radius 15 + (L - 1) * 7 in the plane y = 0; visuals of
\* different layerOrder values have different radii and are counted apart.
C19_LayerPlacement ==
  (Settled /\ hist.rebuilds >= 1) =>
    /\ Len(LayerVisuals) = Len(SelectSeq(props.nodes, LAMBDA r : ~r.isCenter))
    /\ \A g \in 1..Len(LayerVisuals) :
         LET visual == LayerVisuals[g]
             mates == LayerMates(props.nodes, visual.userData.layerOrder)
         IN  /\ visual.pos.kind = "circle"
             /\ visual.pos.n = Len(mates)
             /\ visual.pos.k \in 0..(Len(mates) - 1)
             /\ mates[visual.pos.k + 1] = visual.userData
             /\ visual.pos.radius = RadiusOfLayer(visual.userData.layerOrder)
    /\ \A g \in 1..Len(LayerVisuals) : \A h \in 1..Len(LayerVisuals) :
         /\ (g # h /\ LayerVisuals[g].userData.layerOrder = LayerVisuals[h].userData.layerOrder)
              => LayerVisuals[g].pos.k # LayerVisuals[h].pos.k
         /\ LayerVisuals[g].userData.layerOrder # LayerVisuals[h].userData.layerOrder
              => LayerVisuals[g].pos.radius # LayerVisuals[h].pos.radius

\* two records of layer 1 that are not neighbours in the list share the
\* circle of radius 15 at steps 0 and 1 of 2, the record of layer 2 between
\* them is alone on the circle of radius 22
C19_Witness ==
  /\ Settled
  /\ Len(LayerVisuals) = 3
  /\ props.nodes[1].layerOrder = JSNum(1) /\ props.nodes[2].layerOrder = JSNum(2)
  /\ props.nodes[3].layerOrder = JSNum(1)
  /\ \E g \in 1..3 : /\ LayerVisuals[g].userData = props.nodes[3]
                      /\ LayerVisuals[g].pos.k = 1 /\ LayerVisuals[g].pos.n = 2
                      /\ LayerVisuals[g].pos.radius = JSNum(15)
  /\ \E g \in 1..3 : /\ LayerVisuals[g].userData = props.nodes[2]
                      /\ LayerVisuals[g].pos.k = 0 /\ LayerVisuals[g].pos.n = 1
                      /\ LayerVisuals[g].pos.radius = JSNum(22)

\* the sum of the doubled x offsets of the first k center visuals
RECURSIVE SumOffsets(_)
SumOffsets(visuals) ==
  IF Len(visuals) = 0 THEN 0 ELSE Head(visuals).pos.x2 + SumOffsets(Tail(visuals))

\* C20: the center visuals are the center records in input order, on the x
\* axis (y = z = 0): a single one at the origin, and of n > 1 the k-th
\* (k from 0) at (k - (n - 1)/2) * 3, so that neighbours are 3 apart, the
\* offsets increase with the input order and add up to zero.  Offsets are
\* kept doubled (x2) to stay in the integers.
C20_CenterPlacement ==
  (Settled /\ hist.rebuilds >= 1) =>
    LET centers == SelectSeq(props.nodes, LAMBDA r : r.isCenter)
        n == Len(CenterVisuals)
    IN  /\ n = Len(centers)
        /\ \A k \in 1..n :
             /\ CenterVisuals[k].userData = centers[k]
             /\ CenterVisuals[k].pos.kind = "center"
             /\ n = 1 => CenterVisuals[k].pos.x2 = 0
             /\ n > 1 => CenterVisuals[k].pos.x2 = (2 * (k - 1) - (n - 1)) * 3
        /\ \A k \in 1..(n - 1) : CenterVisuals[k + 1].pos.x2 - CenterVisuals[k].pos.x2 = 2 * 3
        /\ SumOffsets(CenterVisuals) = 0

\* two center records: the first at x = -1.5, the second at x = 1.5
C20_Witness ==
  /\ Settled
  /\ Len(CenterVisuals) = 2
  /\ CenterVisuals[1].userData = SelectSeq(props.nodes, LAMBDA r : r.isCenter)[1]
  /\ CenterVisuals[1].pos.x2 = -3 /\ CenterVisuals[2].pos.x2 = 3

\* the inner cores of the scene: the children of the node group flagged isCore
CoreVisuals == SelectSeq(nodeGroup.children, LAMBDA child : child.isCore)

\* C21: after a rebuild the node group holds exactly one inner core when the
\* node list has a center node and none otherwise; the core is a mesh of the
\* node group itself, added right before the visual of the center node at
\* index 0 and placed at the position of that visual; no center node at
\* index >= 1 has a core at its position.
C21_InnerCore ==
  (Settled /\ hist.rebuilds >= 1) =>
    LET centers == SelectSeq(props.nodes, LAMBDA r : r.isCenter)
    IN  /\ Len(CoreVisuals) = IF Len(centers) > 0 THEN 1 ELSE 0
        /\ \A g \in 1..Len(NodeVisuals) :
             \A c \in 1..Len(NodeVisuals[g].children) : ~NodeVisuals[g].children[c].isCore
        /\ Len(centers) > 0 =>
             /\ nodeGroup.children[1] = CoreVisuals[1]
             /\ nodeGroup.children[2] = CenterVisuals[1]
             /\ CoreVisuals[1].type = "Mesh"
             /\ CenterVisuals[1].userData = centers[1]
             /\ CoreVisuals[1].pos = CenterVisuals[1].pos
             /\ \A k \in 2..Len(CenterVisuals) : CenterVisuals[k].pos # CoreVisuals[1].pos

\* two center records and one inner core, at x = -1.5 with the first of them
C21_Witness ==
  /\ Settled
  /\ Len(CenterVisuals) = 2
  /\ Len(CoreVisuals) = 1
  /\ CoreVisuals[1].pos.x2 = -3
  /\ CenterVisuals[2].pos.x2 = 3

\* an object without the identity of its geometry and material and without
\* its accumulated rotation, and so for its children
RECURSIVE Plain(_)
PlainAll(children) == [k \in 1..Len(children) |-> Plain(children[k])]
Plain(obj) == [obj EXCEPT !.id = 0, !.rot = 0, !.children = PlainAll(obj.children)]

\* the geometry/material pairs of the objects attached to the two groups
AttachedIds == disposeAll(nodeGroup.children, 1) \o disposeAll(ringsGroup, 1)

DisposedIds == { id \in 1..Len(heap.disposals) : heap.disposals[id] >= 1 }

\* C22: whatever the groups held before a rebuild (nothing, a whole earlier
\* build of the same or of another node list, or a part of one), after it
\* they hold what a rebuild of the current (nodes, numberOfLayers) into empty
\* groups yields; every object attached was created by this rebuild and is
\* not disposed; everything attached before was disposed once.
C22_IndependentRebuild ==
  (Settled /\ hist.rebuilds >= 1) =>
    LET fromEmpty == rebuild(props.nodes, props.numberOfLayers, 1)
        created == fromEmpty.next - 1
    IN  /\ PlainAll(nodeGroup.children) = PlainAll(fromEmpty.nodeChildren)
        /\ PlainAll(ringsGroup) = PlainAll(fromEmpty.ringChildren)
        /\ Len(AttachedIds) = created
        /\ \A k \in 1..Len(AttachedIds) :
             /\ AttachedIds[k] >= heap.next - created
             /\ heap.disposals[AttachedIds[k]] = 0
        /\ NeverDisposedTwice

\* the rebuild found the inner core and the center visual of an earlier
\* rebuild that stopped there, disposed the three, and built the ten
\* geometry/material pairs of the one-center series
C22_Witness ==
  /\ Settled
  /\ hist.rebuilds = 1
  /\ props.series = SeriesOneCenter /\ props.numberOfLayers = 3
  /\ DisposedIds = {1, 2, 3}
  /\ Len(AttachedIds) = 10
  /\ Len(nodeGroup.children) = 4 /\ Len(ringsGroup) = 3

\* what the two groups hold, identities and rotations aside
SceneShown == [nodeChildren |-> PlainAll(nodeGroup.children), ringChildren |-> PlainAll(ringsGroup)]

\* what a completed rebuild of (nodes, numberOfLayers) leaves in the groups
SceneOf(nodes, numberOfLayers) ==
  [nodeChildren |-> PlainAll(rebuild(nodes, numberOfLayers, 1).nodeChildren),
   ringChildren |-> PlainAll(rebuild(nodes, numberOfLayers, 1).ringChildren)]

\* the groups as the mount leaves them, and as a completed rebuild of any
\* node list of the host leaves them
WholeScenes ==
  { [nodeChildren |-> <<>>, ringChildren |-> <<>>] }
    \cup { SceneOf(nodes, layers) : nodes \in NodeLists, layers \in LayerChoices }

UpdateQueued == \E k \in 1..Len(pending) : pending[k] = "update"

\* C23: a frame callback finds the two groups as the mount or a completed
\* rebuild left them, never a part of a build; nothing attached is disposed;
\* when the scene is mounted and no update effect is waiting, it finds the
\* build of the current node list and numberOfLayers, otherwise the whole
\* earlier one; the callback itself attaches, removes and disposes nothing.
C23_FramesSeeWholeRebuilds ==
  [][AnimateStep =>
       /\ SceneShown \in WholeScenes
       /\ \A k \in 1..Len(AttachedIds) : heap.disposals[AttachedIds[k]] = 0
       /\ (inst = "mounted" /\ ~UpdateQueued) =>
            SceneShown = SceneOf(props.nodes, props.numberOfLayers)
       /\ PlainAll(nodeGroup'.children) = PlainAll(nodeGroup.children)
       /\ ringsGroup' = ringsGroup
       /\ heap' = heap ]_vars

\* a refresh was committed after a frame and its update effect has not run
\* yet: the next frame callback can run now, and finds the whole build of the
\* node list before the refresh
C23_Witness ==
  /\ inst = "mounted"
  /\ pending = <<"update">>
  /\ hist.rebuilds >= 1
  /\ hist.frames >= 1 /\ hist.frames < MaxTicks
  /\ raf.queue # {}
  /\ Len(nodeGroup.children) > 0
  /\ SceneShown \in WholeScenes
  /\ SceneShown # SceneOf(props.nodes, props.numberOfLayers)

\* C24: right after a rebuild the accumulated rotation of the node group and
\* the accumulated rotation of every center visual and inner core are zero,
\* however many frames were rendered before it.
C24_RotationResets ==
  [][RebuildStep =>
       /\ nodeGroup'.rot = 0
       /\ \A k \in 1..Len(nodeGroup'.children) : nodeGroup'.children[k].rot = 0 ]_vars

\* "2026-11-04 10:00:00"
s_tenOClock ==
  <<50, 48, 50, 54, 45, 49, 49, 45, 48, 52, 32, 49, 48, 58, 48, 48, 58, 48, 48>>

TickStep == clock'.ticks # clock.ticks \/ clock'.late # clock.late
PropsStep == clock'.renders # clock.renders

\* C25: once the interval effect of an InfoPanel instance has run and until
\* the instance unmounts, exactly one timer is active, the one the effect
\* set; never more than one, also across renders with new props and across
\* instances; a tick happens only on a live instance and makes the current
\* time the state and the text shown; a render with new props keeps the
\* timer and the time; once the instance is gone no timer is active, no
\* tick runs and state and display stay as they are.
C25_LiveClock ==
  /\ [](/\ clock.inst = "mounted" => { t.id : t \in clock.timers } = { clock.intervalId }
        /\ Cardinality(clock.timers) <= 1
        /\ clock.inst \in {"none", "gone"} => clock.timers = {}
        /\ clock.late = 0)
  /\ [][ /\ TickStep =>
              (/\ clock.inst = "mounted"
               /\ clock'.currentTime = DateAt(clock.now)
               /\ clock'.shown.time = formatDateTime(DateAt(clock.now))
               /\ { t.id : t \in clock'.timers } = { t.id : t \in clock.timers })
         /\ PropsStep =>
              (/\ clock'.timers = clock.timers
               /\ clock'.intervalId = clock.intervalId
               /\ clock'.currentTime = clock.currentTime
               /\ clock'.shown.time = clock.shown.time)
         /\ (clock.inst = "gone" /\ clock'.inst = "gone") =>
              (clock'.currentTime = clock.currentTime /\ clock'.shown = clock.shown
                 /\ clock'.timers = {}) ]_vars

\* the second instance, rendered with new props since, has ticked past ten
\* o'clock: one timer, the second one set, and the text of the new time
C25_Witness ==
  /\ clock.inst = "mounted"
  /\ clock.mounts = 2
  /\ clock.renders >= 1
  /\ clock.ticks >= 2
  /\ { t.id : t \in clock.timers } = {2}
  /\ clock.shown.time = s_tenOClock

\* C26: after a rebuild every visual of a record that is not a center node
\* sits at the radius 15 + (L - 1) * 7 of its layerOrder L, and the ring
\* group holds a ring of that radius.
C26_NodesOnRings ==
  (Settled /\ hist.rebuilds >= 1) =>
    \A g \in 1..Len(LayerVisuals) :
      /\ LayerVisuals[g].pos.radius = RadiusOfLayer(LayerVisuals[g].userData.layerOrder)
      /\ \E i \in 1..Len(ringsGroup) :
           /\ ringsGroup[i].pos.radius.t = "num"
           /\ ringsGroup[i].pos.radius = LayerVisuals[g].pos.radius

====
